---- MODULE Spec2Model ----
(***************************************************************************)
(* Model of the relational persistence layer of Overture_lists:            *)
(*   - DatabaseStorage (src/src/database_storage.py): divisions, lists,    *)
(*     CRM mappings and relationships behind one sqlite3 connection;       *)
(*   - CRMMappingStorage (src/src/crm_mapping_storage.py): the mappings    *)
(*     table of the stand-alone CRM database.                              *)
(*                                                                         *)
(* A sqlite3 connection in Python's default isolation mode opens a         *)
(* transaction implicitly before the first INSERT/UPDATE/DELETE and keeps  *)
(* it open until conn.commit() or conn.rollback().  `db` is the database   *)
(* as the connection sees it (committed rows plus its pending writes),     *)
(* `disk` is the committed database that a fresh connection would see.     *)
(* A statement that violates a constraint is undone on its own and raises  *)
(* sqlite3.IntegrityError; the statements executed before it in the same   *)
(* transaction stay pending.                                               *)
(*                                                                         *)
(* src/src/sql/schema.sql (the DDL of DatabaseStorage) is not part of the  *)
(* sources; its constraints are modelled from the specification and the    *)
(* tests and are the definitions whose names start with Schema.            *)
(***************************************************************************)
EXTENDS Integers, Sequences, FiniteSets, TLC

VARIABLES
    db,            \* DatabaseStorage: tables as seen through self.conn
    disk,          \* DatabaseStorage: committed tables
    result,        \* outcome of the last call: [op, status, value, args]
    returned,      \* history: system_id -> ids returned by save_division
                   \* since the last rollback
    aborted,       \* history: update_list_items calls that raised mid-way
                   \* since the last rollback, with the items they found
    mappings,      \* CRMMappingStorage: rows of the mappings table
    mappings_seq,  \* CRMMappingStorage: AUTOINCREMENT counter of mappings
    store,         \* Database / ListDatabaseStorage: committed tables of the
                   \* database file
    txn,           \* Database.save_list in progress: its arguments and the
                   \* tables as its connection sees them
    reader,        \* a read call in progress: what it has fetched, or its
                   \* arguments
    world,         \* what lies outside the process: the dataset behind each
                   \* parquet_path, the clients.json of each data_dir
    st_cache,      \* entries of streamlit's st.cache_data
    conns          \* DatabaseStorage: one connection per concurrent caller,
                   \* with its call in progress and its pending writes

vars == <<db, disk, result, returned, aborted, mappings, mappings_seq,
          store, txn, reader, world, st_cache, conns>>

(***************************************************************************)
(* Bounds of the model.                                                    *)
(***************************************************************************)
MaxLists == 1          \* rows in lists
MaxItems == 2          \* length of an item_ids argument
MaxRelationships == 2  \* rows in relationships
MaxMappingId == 3      \* largest AUTOINCREMENT id handed out

SystemIds == {"ovt-a", "ovt-b", "ovt-c"}       \* Overture division ids
Names == {"n1", "n2"}                          \* descriptive field values
CrmIds == {"X", "Y"}                           \* CRM system ids
ListNames == {"West"}
ListTypes == {"division", "client"}
BadListTypes == {"boundary"}                   \* rejected by create_list
RelationshipTypes == {"reports_to", "collaborates_with"}

\* division ids a caller may pass: the ids the cache can hand out and one
\* id that is never cached
AnyDivisionId == 1..(Cardinality(SystemIds) + 1)

(***************************************************************************)
(* Generic helpers.                                                        *)
(***************************************************************************)
Max(S) == CHOOSE x \in S : \A y \in S : y <= x

\* sqlite rowid of a new row of an INTEGER PRIMARY KEY table
NextRowId(rows) == IF rows = {} THEN 1 ELSE Max({r.id : r \in rows}) + 1

SeqToSet(s) == {s[i] : i \in 1..Len(s)}

\* duplicate-free sequences over S of length 0..n
RECURSIVE SeqsUpTo(_, _)
SeqsUpTo(S, n) ==
    IF n = 0 THEN {<<>>}
    ELSE LET shorter == SeqsUpTo(S, n - 1)
         IN  shorter \cup {Append(s, x) : s \in {t \in shorter : Len(t) = n - 1},
                                          x \in S}

ItemSeqs(S) == {s \in SeqsUpTo(S, MaxItems) :
                    \A i, j \in 1..Len(s) : i # j => s[i] # s[j]}

EmptyTables ==
    [divisions      |-> {},
     lists          |-> {},
     list_divisions |-> <<>>,
     list_clients   |-> <<>>,
     crm_mappings   |-> {},
     relationships  |-> {}]

\* a statement's effect: the tables afterwards and the error it raised
StmtOk(t) == [status |-> "ok", tables |-> t]
StmtError(t) == [status |-> "IntegrityError", tables |-> t]

Outcome(op, status, value, args) ==
    [op |-> op, status |-> status, value |-> value, args |-> args]

(***************************************************************************)
(* Schema of DatabaseStorage (sql/schema.sql).                             *)
(***************************************************************************)
\* divisions.system_id is UNIQUE
SchemaDivisionAccepts(t, row) ==
    \A d \in t.divisions : d.system_id # row.system_id

\* crm_mappings.division_id REFERENCES divisions(id)
SchemaMappingForeignKey(t, row) ==
    \E d \in t.divisions : d.id = row.division_id

\* crm_mappings.system_id is UNIQUE (the conflict target of save_mapping):
\* the rows that collide with `row` on system_id
SchemaMappingSystemIdConflicts(rows, row) ==
    {m \in rows : m.system_id = row.system_id}

\* crm_mappings.division_id is UNIQUE
SchemaMappingDivisionUnique(rows, row) ==
    \A m \in rows : m.division_id # row.division_id

\* relationships: parent_division_id and child_division_id REFERENCES
\* divisions(id)
SchemaRelationshipForeignKeys(t, row) ==
    /\ \E d \in t.divisions : d.id = row.parent_division_id
    /\ \E d \in t.divisions : d.id = row.child_division_id

\* relationships without a uniqueness constraint
SchemaRelationshipUnique_None(rows, row) == TRUE

\* relationships: UNIQUE(parent_division_id, child_division_id,
\* relationship_type)
SchemaRelationshipUnique(rows, row) ==
    \A r \in rows :
        ~ /\ r.parent_division_id = row.parent_division_id
          /\ r.child_division_id = row.child_division_id
          /\ r.relationship_type = row.relationship_type

\* relationships: CHECK(parent_division_id != child_division_id)
SchemaRelationshipCheck(row) ==
    row.parent_division_id # row.child_division_id

\* lists.hash is UNIQUE
SchemaListHashUnique(rows, row) ==
    \A l \in rows : l.hash # row.hash

\* list_divisions.division_id REFERENCES divisions(id).  list_clients has
\* no such reference: its system_ids name clients of clients.json.
SchemaListDivisionForeignKey(t, division_id) ==
    \E d \in t.divisions : d.id = division_id

(***************************************************************************)
(* DatabaseStorage: division operations.                                   *)
(***************************************************************************)
\* rows of SELECT * FROM divisions WHERE system_id = ?
get_division_by_system_id_Any(t, system_id) == {}

get_division_by_system_id(t, system_id) ==
    {d \in t.divisions : d.system_id = system_id}

\* a save_division that overwrites the descriptive fields of the cached row
save_division_existing_Overwrite(t, existing, row) == [t EXCEPT !.divisions = (@ \ existing) \cup {[d EXCEPT !.name = row.name] : d \in existing}]

\* `if existing: return existing["id"]`: the tables when the system_id is
\* already cached; no statement runs
save_division_existing(t, existing, row) == t

SaveDivision(system_id, name) ==
    LET existing == get_division_by_system_id(db, system_id)
        row == [id |-> NextRowId(db.divisions), system_id |-> system_id,
                name |-> name]
        args == <<system_id, name>>
    IN  /\ IF existing # {}
           THEN /\ result' = Outcome("save_division", "ok",
                                     {d.id : d \in existing}, args)
                /\ returned' = [returned EXCEPT ![system_id] =
                                    @ \cup {d.id : d \in existing}]
                /\ db' = save_division_existing(db, existing, row)
           ELSE IF SchemaDivisionAccepts(db, row)
           THEN /\ db' = [db EXCEPT !.divisions = @ \cup {row}]
                /\ result' = Outcome("save_division", "ok", {row.id}, args)
                /\ returned' = [returned EXCEPT ![system_id] = @ \cup {row.id}]
           ELSE /\ db' = db
                /\ result' = Outcome("save_division", "IntegrityError", {}, args)
                /\ returned' = returned
        /\ UNCHANGED <<conns, world, st_cache, disk, aborted, mappings, mappings_seq, store, txn, reader>>

\* self.conn.commit()
Commit ==
    /\ disk' = db
    /\ result' = Outcome("commit", "ok", {}, <<>>)
    /\ UNCHANGED <<conns, world, st_cache, db, returned, aborted, mappings, mappings_seq, store, txn, reader>>

\* self.conn.rollback()
Rollback ==
    /\ db' = disk
    /\ result' = Outcome("rollback", "ok", {}, <<>>)
    /\ aborted' = {}
    /\ returned' = [s \in SystemIds |-> {}]
    /\ UNCHANGED <<conns, world, st_cache, disk, mappings, mappings_seq, store, txn, reader>>

(***************************************************************************)
(* DatabaseStorage: list operations.                                       *)
(* list_divisions and list_clients are kept in insertion (rowid) order.    *)
(* item_ids arguments are duplicate-free.                                  *)
(***************************************************************************)
\* hashlib.md5(f"{name}|{list_type}").hexdigest(); md5 is taken to be
\* collision-free, the digest is represented by the digested content
_compute_hash(name, list_type) == <<"md5", name, "|", list_type>>

\* a lookup that never finds a list
check_duplicate_list_None(t, hash_val) == {}

\* SELECT id FROM lists WHERE hash = ?
check_duplicate_list(t, hash_val) ==
    {l.id : l \in {x \in t.lists : x.hash = hash_val}}

\* SELECT * FROM lists WHERE id = ?
get_list(t, list_id) == {l \in t.lists : l.id = list_id}

\* ids of the items get_list_items returns for the list: the divisions
\* joined to its list_divisions rows, or the system_ids of its
\* list_clients rows
get_list_items(t, list_id) ==
    LET list_data == get_list(t, list_id)
    IN  IF list_data = {} THEN {}
        ELSE IF \E l \in list_data : l.type = "division"
        THEN {d.id : d \in {x \in t.divisions :
                  \E i \in 1..Len(t.list_divisions) :
                      /\ t.list_divisions[i].list_id = list_id
                      /\ t.list_divisions[i].division_id = x.id}}
        ELSE {t.list_clients[i].system_id :
                  i \in {j \in 1..Len(t.list_clients) :
                             t.list_clients[j].list_id = list_id}}

\* conn.executemany("INSERT INTO list_divisions ..."): one INSERT per item,
\* in order; the first rejected INSERT raises and the rows inserted before
\* it stay in the transaction
RECURSIVE insert_list_divisions(_, _, _)
insert_list_divisions(t, list_id, item_ids) ==
    IF item_ids = <<>> THEN StmtOk(t)
    ELSE IF ~SchemaListDivisionForeignKey(t, Head(item_ids))
    THEN StmtError(t)
    ELSE insert_list_divisions(
             [t EXCEPT !.list_divisions =
                 Append(@, [list_id |-> list_id, division_id |-> Head(item_ids)])],
             list_id, Tail(item_ids))

\* conn.executemany("INSERT INTO list_clients ...")
RECURSIVE insert_list_clients(_, _, _)
insert_list_clients(t, list_id, item_ids) ==
    IF item_ids = <<>> THEN StmtOk(t)
    ELSE insert_list_clients(
             [t EXCEPT !.list_clients =
                 Append(@, [list_id |-> list_id, system_id |-> Head(item_ids)])],
             list_id, Tail(item_ids))

insert_items(t, list_type, list_id, item_ids) ==
    IF list_type = "division"
    THEN insert_list_divisions(t, list_id, item_ids)
    ELSE insert_list_clients(t, list_id, item_ids)

\* a call that accepts an empty item_ids
EmptyItemIds_Unchecked(item_ids) == FALSE

\* if not item_ids: raise ValueError
EmptyItemIds(item_ids) == item_ids = <<>>

CreateList(name, list_type, item_ids, notes) ==
    LET args == <<name, list_type, item_ids, notes>>
        hash_val == _compute_hash(name, list_type)
        existing == check_duplicate_list(db, hash_val)
        row == [id |-> NextRowId(db.lists), name |-> name, type |-> list_type,
                notes |-> notes, hash |-> hash_val]
        with_list == [db EXCEPT !.lists = @ \cup {row}]
        stmt == insert_items(with_list, list_type, row.id, item_ids)
    IN  /\ IF EmptyItemIds(item_ids) \/ list_type \notin {"division", "client"}
           THEN /\ db' = db
                /\ result' = Outcome("create_list", "ValueError", {}, args)
           ELSE IF existing # {}
           THEN /\ db' = db
                /\ result' = Outcome("create_list", "ValueError", existing, args)
           ELSE IF ~SchemaListHashUnique(db.lists, row)
           THEN /\ db' = db
                /\ result' = Outcome("create_list", "IntegrityError", {}, args)
           ELSE /\ Cardinality(db.lists) < MaxLists
                /\ db' = stmt.tables
                /\ result' = Outcome("create_list", stmt.status,
                                     IF stmt.status = "ok" THEN {row.id} ELSE {},
                                     args)
        /\ UNCHANGED <<conns, world, st_cache, disk, returned, aborted, mappings, mappings_seq, store, txn, reader>>

\* update_list_items that inserts the new items without deleting the old
delete_items_Skipped(t, list_type, list_id) == t

\* DELETE FROM list_divisions / list_clients WHERE list_id = ?
delete_items(t, list_type, list_id) ==
    LET Other(r) == r.list_id # list_id
    IN  IF list_type = "division"
        THEN [t EXCEPT !.list_divisions = SelectSeq(@, Other)]
        ELSE [t EXCEPT !.list_clients = SelectSeq(@, Other)]

UpdateListItems(list_id, item_ids) ==
    LET args == <<list_id, item_ids>>
        list_data == get_list(db, list_id)
        list_type == (CHOOSE l \in list_data : TRUE).type
        old == get_list_items(db, list_id)
        stmt == insert_items(delete_items(db, list_type, list_id),
                             list_type, list_id, item_ids)
    IN  /\ IF EmptyItemIds(item_ids) \/ list_data = {}
           THEN /\ db' = db
                /\ result' = Outcome("update_list_items", "ValueError", {}, args)
                /\ aborted' = aborted
           ELSE /\ db' = stmt.tables
                /\ result' = Outcome("update_list_items", stmt.status, {}, args)
                /\ aborted' =
                      {a \in aborted : a.list_id # list_id} \cup
                      (IF stmt.status = "ok" THEN {}
                       ELSE {[list_id |-> list_id, old |-> old]})
        /\ UNCHANGED <<conns, world, st_cache, disk, returned, mappings, mappings_seq, store, txn, reader>>

(***************************************************************************)
(* DatabaseStorage: CRM mapping operations.                                *)
(***************************************************************************)
\* INSERT OR REPLACE INTO crm_mappings: colliding rows are deleted
save_mapping_sql_Replace(t, row) ==
    IF ~SchemaMappingForeignKey(t, row)
    THEN StmtError(t)
    ELSE StmtOk([t EXCEPT !.crm_mappings =
                    {m \in @ : /\ m.system_id # row.system_id
                               /\ m.division_id # row.division_id} \cup {row}])

\* INSERT INTO crm_mappings ... ON CONFLICT(system_id) DO NOTHING
save_mapping_sql_DoNothing(t, row) ==
    IF SchemaMappingSystemIdConflicts(t.crm_mappings, row) # {}
    THEN StmtOk(t)
    ELSE IF ~SchemaMappingForeignKey(t, row)
              \/ ~SchemaMappingDivisionUnique(t.crm_mappings, row)
    THEN StmtError(t)
    ELSE StmtOk([t EXCEPT !.crm_mappings = @ \cup {row}])

\* INSERT INTO crm_mappings ... ON CONFLICT(system_id) DO UPDATE SET ...
\* A collision on system_id turns the insert into an update of that row
\* (every column is overwritten with the new value); a collision on any
\* other constraint aborts the statement.
save_mapping_sql(t, row) ==
    LET target == SchemaMappingSystemIdConflicts(t.crm_mappings, row)
        others == t.crm_mappings \ target
    IN  IF ~SchemaMappingForeignKey(t, row)
        THEN StmtError(t)
        ELSE IF ~SchemaMappingDivisionUnique(others, row)
        THEN StmtError(t)
        ELSE StmtOk([t EXCEPT !.crm_mappings = others \cup {row}])

SaveMapping(system_id, division_id, account_name, custom_admin_level) ==
    LET row == [system_id |-> system_id, division_id |-> division_id,
                account_name |-> account_name,
                custom_admin_level |-> custom_admin_level]
        stmt == save_mapping_sql(db, row)
        \* the rows the statement has overwritten
        updated == IF stmt.status = "ok"
                   THEN db.crm_mappings \ stmt.tables.crm_mappings
                   ELSE {}
    IN  /\ db' = stmt.tables
        /\ result' = Outcome("save_mapping", stmt.status, updated,
                             <<system_id, division_id, account_name,
                               custom_admin_level>>)
        /\ UNCHANGED <<conns, world, st_cache, disk, returned, aborted, mappings, mappings_seq, store, txn, reader>>

\* DELETE FROM crm_mappings WHERE system_id = ?
DeleteMapping(system_id) ==
    /\ db' = [db EXCEPT !.crm_mappings = {m \in @ : m.system_id # system_id}]
    /\ result' = Outcome("delete_mapping", "ok", {}, <<system_id>>)
    /\ UNCHANGED <<conns, world, st_cache, disk, returned, aborted, mappings, mappings_seq, store, txn, reader>>

(***************************************************************************)
(* DatabaseStorage: relationship operations.                               *)
(***************************************************************************)
\* INSERT OR IGNORE with one edge per (parent, child) pair
add_relationship_sql_PairUnique(t, row) ==
    IF \E r \in t.relationships :
          /\ r.parent_division_id = row.parent_division_id
          /\ r.child_division_id = row.child_division_id
    THEN StmtOk(t)
    ELSE StmtOk([t EXCEPT !.relationships = @ \cup {row}])

\* INSERT OR IGNORE INTO relationships: a row that violates a UNIQUE or
\* CHECK constraint is skipped without an error; a foreign key violation
\* is not covered by OR IGNORE and aborts the statement.
add_relationship_sql(t, row) ==
    IF ~ (SchemaRelationshipUnique(t.relationships, row)
          /\ SchemaRelationshipCheck(row))
    THEN StmtOk(t)
    ELSE IF ~SchemaRelationshipForeignKeys(t, row)
    THEN StmtError(t)
    ELSE StmtOk([t EXCEPT !.relationships = @ \cup {row}])

\* add_relationship without the parent == child test
SelfRelationship_Unchecked(parent_division_id, child_division_id) == FALSE

\* if parent_division_id == child_division_id: raise ValueError
SelfRelationship(parent_division_id, child_division_id) ==
    parent_division_id = child_division_id

AddRelationship(parent_division_id, child_division_id, relationship_type) ==
    LET row == [id |-> NextRowId(db.relationships),
                parent_division_id |-> parent_division_id,
                child_division_id |-> child_division_id,
                relationship_type |-> relationship_type]
        args == <<parent_division_id, child_division_id, relationship_type>>
        stmt == add_relationship_sql(db, row)
    IN  /\ IF SelfRelationship(parent_division_id, child_division_id)
           THEN /\ db' = db
                /\ result' = Outcome("add_relationship", "ValueError", {}, args)
           ELSE /\ Cardinality(stmt.tables.relationships) <= MaxRelationships
                /\ stmt.tables # db => row.id <= MaxRelationships
                /\ db' = stmt.tables
                /\ result' = Outcome("add_relationship", stmt.status, {}, args)
        /\ UNCHANGED <<conns, world, st_cache, disk, returned, aborted, mappings, mappings_seq, store, txn, reader>>

DeleteRelationship(parent_division_id, child_division_id, relationship_type) ==
    /\ db' = [db EXCEPT !.relationships =
                {r \in @ : ~ /\ r.parent_division_id = parent_division_id
                             /\ r.child_division_id = child_division_id
                             /\ r.relationship_type = relationship_type}]
    /\ result' = Outcome("delete_relationship", "ok", {}, <<>>)
    /\ UNCHANGED <<conns, world, st_cache, disk, returned, aborted, mappings, mappings_seq, store, txn, reader>>

(***************************************************************************)
(* CRMMappingStorage: every method opens its own connection and commits    *)
(* (or rolls back) before it returns, so `mappings` is the committed       *)
(* table.  id is INTEGER PRIMARY KEY AUTOINCREMENT: a new row gets an id   *)
(* above every id handed out before (mappings_seq), also after deletes.    *)
(***************************************************************************)
\* mappings without the UNIQUE constraint on division_id
MappingsTableAccepts_SystemIdOnly(rows, row) ==
    \A m \in rows : m.system_id # row.system_id

\* CREATE TABLE mappings: system_id UNIQUE, division_id UNIQUE
MappingsTableAccepts(rows, row) ==
    \A m \in rows : /\ m.system_id # row.system_id
                    /\ m.division_id # row.division_id

\* The columns without a uniqueness constraint are represented by
\* account_name; the arguments are never None.
AddMapping(system_id, account_name, division_id) ==
    LET row == [id |-> mappings_seq + 1, system_id |-> system_id,
                account_name |-> account_name, division_id |-> division_id]
        args == <<system_id, account_name, division_id>>
    IN  /\ IF MappingsTableAccepts(mappings, row)
           THEN /\ mappings_seq < MaxMappingId
                /\ mappings' = mappings \cup {row}
                /\ mappings_seq' = mappings_seq + 1
                /\ result' = Outcome("add_mapping", "ok", {}, args)
           ELSE \* conn.rollback(); raise e
                /\ mappings' = mappings
                /\ mappings_seq' = mappings_seq
                /\ result' = Outcome("add_mapping", "IntegrityError", {}, args)
        /\ UNCHANGED <<conns, world, st_cache, db, disk, returned, aborted, store, txn, reader>>

\* delete_mapping(mapping_id): returns cursor.rowcount > 0
DeleteMappingById(mapping_id) ==
    /\ mappings' = {m \in mappings : m.id # mapping_id}
    /\ result' = Outcome("delete_mapping", "ok",
                         {m.id : m \in {x \in mappings : x.id = mapping_id}},
                         <<mapping_id>>)
    /\ UNCHANGED <<conns, world, st_cache, db, disk, returned, aborted, mappings_seq, store, txn, reader>>

DeleteMappingBySystemId(system_id) ==
    /\ mappings' = {m \in mappings : m.system_id # system_id}
    /\ result' = Outcome("delete_mapping_by_system_id", "ok",
                         {m.id : m \in {x \in mappings : x.system_id = system_id}},
                         <<system_id>>)
    /\ UNCHANGED <<conns, world, st_cache, db, disk, returned, aborted, mappings_seq, store, txn, reader>>

ClearAllMappings ==
    /\ mappings' = {}
    /\ result' = Outcome("clear_all_mappings", "ok", {}, <<>>)
    /\ UNCHANGED <<conns, world, st_cache, db, disk, returned, aborted, mappings_seq, store, txn, reader>>

(***************************************************************************)
(* Database (src/src/database.py) and ListDatabaseStorage                  *)
(* (src/src/list_database_storage.py): every method opens a connection of  *)
(* its own, commits or rolls back, and closes it.  `store` is the          *)
(* committed content of the database file.  list.id is AUTOINCREMENT:      *)
(* `list_seq` is the largest id handed out, and a deleted id is not used   *)
(* again.  division_metadata rows are never deleted, so their next id is   *)
(* the largest id plus one; the id of a list_item row is not modelled.     *)
(***************************************************************************)
EmptyStore ==
    [division_info     |-> {},
     mappings          |-> {},
     relationships     |-> {},
     list              |-> {},
     division_metadata |-> {},
     list_item         |-> {},
     list_seq          |-> 0]

\* no save_list is running.  `saved` is history: for each list_id the
\* division ids of the items of the save_list that committed last
NoTxn == [active |-> FALSE, saved |-> {}]

\* no load_list is running
NoReader == [active |-> FALSE]

\* the methods wrapped in @st.cache_data(ttl=3600); st_cache holds the entries
\* of each
CachedFunctions ==
    {"get_countries", "get_top_level_divisions", "get_child_divisions",
     "get_geometry", "load_clients"}

EmptyCache == [func \in CachedFunctions |-> {}]

\* no dataset and no clients.json is looked at
NoWorld == [datasets |-> <<>>, files |-> <<>>]

\* the callers that hold a DatabaseStorage of their own on the same file
Callers == {"c1", "c2"}

\* a connection right after sqlite3.connect: no call made, no transaction
NoCall == [op |-> "none", status |-> "ok", value |-> {}, args |-> <<>>, txn |-> "none"]

NoConn == [pc |-> "idle", args |-> <<>>, pending |-> FALSE, tables |-> EmptyTables, call |-> NoCall]

NoConns == [c \in Callers |-> NoConn]

Init ==
    /\ store = EmptyStore
    /\ txn = NoTxn
    /\ reader = NoReader
    /\ db = EmptyTables
    /\ disk = EmptyTables
    /\ result = Outcome("init", "ok", {}, <<>>)
    /\ returned = [s \in SystemIds |-> {}]
    /\ aborted = {}
    /\ mappings = {}
    /\ mappings_seq = 0
    /\ world = NoWorld
    /\ st_cache = EmptyCache
    /\ conns = NoConns

(***************************************************************************)
(* Division cache: any sequence of save_division calls and commits.        *)
(***************************************************************************)
NextDivision ==
    \/ \E system_id \in SystemIds, name \in Names : SaveDivision(system_id, name)
    \/ Commit

SpecDivision == Init /\ [][NextDivision]_vars

\* C1: save_division is idempotent per system_id: every call with the same
\* system_id returns normally with the same division id, and the divisions
\* table holds exactly one row for a system_id that was saved.
C1_SaveDivisionIdempotent ==
    /\ result.op = "save_division" => result.status = "ok"
    /\ \A s \in SystemIds :
          /\ Cardinality(returned[s]) <= 1
          /\ returned[s] # {} =>
                /\ Cardinality({d \in db.divisions : d.system_id = s}) = 1
                /\ returned[s] = {d.id : d \in {e \in db.divisions : e.system_id = s}}

\* a cached system_id was saved again, with another name, and the call
\* returned the id of the cached row
C1_Witness ==
    /\ result.op = "save_division"
    /\ result.status = "ok"
    /\ Cardinality(db.divisions) = 2
    /\ \E d \in db.divisions :
          /\ d.system_id = result.args[1]
          /\ d.name # result.args[2]
          /\ result.value = {d.id}

(***************************************************************************)
(* CRM mappings of DatabaseStorage over a cache of divisions.              *)
(***************************************************************************)
NextMapping ==
    \/ \E system_id \in SystemIds : SaveDivision(system_id, "n1")
    \/ \E system_id \in CrmIds, division_id \in AnyDivisionId,
          account_name \in Names, custom_admin_level \in Names :
            SaveMapping(system_id, division_id, account_name, custom_admin_level)
    \/ \E system_id \in CrmIds : DeleteMapping(system_id)

SpecMapping == Init /\ [][NextMapping]_vars

\* the save_mapping call that produced result' was made with division A
\* while a mapping for A with another system_id existed
C2_Case ==
    /\ result'.op = "save_mapping"
    /\ \E m \in db.crm_mappings : /\ m.division_id = result'.args[2]
                                   /\ m.system_id # result'.args[1]

C3_Case ==
    /\ result'.op = "save_mapping"
    /\ \E m \in db.crm_mappings : /\ m.system_id = result'.args[1]
                                   /\ m.division_id # result'.args[2]

\* C3: once a mapping with system_id X exists for division A, save_mapping
\* with X and a different division B raises, and the stored mapping for X
\* still references A with its original fields.
C3_SystemIdOneToOne ==
    [][C3_Case =>
          /\ result'.status = "IntegrityError"
          /\ {m \in db'.crm_mappings : m.system_id = result'.args[1]}
               = {m \in db.crm_mappings : m.system_id = result'.args[1]}]_vars

(***************************************************************************)
(* CRMMappingStorage.                                                      *)
(***************************************************************************)
NextCRM ==
    \/ \E system_id \in CrmIds, account_name \in Names,
          division_id \in SystemIds :
            AddMapping(system_id, account_name, division_id)
    \/ \E mapping_id \in 1..MaxMappingId : DeleteMappingById(mapping_id)
    \/ \E system_id \in CrmIds : DeleteMappingBySystemId(system_id)
    \/ ClearAllMappings

SpecCRM == Init /\ [][NextCRM]_vars

OneToOne(rows) ==
    \A m1, m2 \in rows :
        (m1.system_id = m2.system_id \/ m1.division_id = m2.division_id)
            => m1 = m2

\* the add_mapping call that produced result' would break the one-to-one
\* relation of the table it was made on
C4_Case ==
    /\ result'.op = "add_mapping"
    /\ \E m \in mappings : \/ m.system_id = result'.args[1]
                            \/ m.division_id = result'.args[3]

\* C4: after any sequence of add_mapping, delete_mapping,
\* delete_mapping_by_system_id and clear_all_mappings, no two mapping rows
\* share a system_id or a division_id; an add_mapping that would break
\* either raises sqlite3.IntegrityError and leaves the table unchanged.
C4_MappingsOneToOne ==
    [][/\ OneToOne(mappings')
       /\ C4_Case => /\ result'.status = "IntegrityError"
                      /\ mappings' = mappings]_vars

\* an add_mapping for a division that another system_id holds was refused
\* after a delete had made room in the table
C4_Witness ==
    /\ result.op = "add_mapping"
    /\ result.status = "IntegrityError"
    /\ mappings_seq >= 2
    /\ \E m \in mappings : /\ m.division_id = result.args[3]
                            /\ m.system_id # result.args[1]

(***************************************************************************)
(* Relationship graph of DatabaseStorage over a cache of divisions.        *)
(***************************************************************************)
NextRelationship ==
    \/ \E system_id \in SystemIds : SaveDivision(system_id, "n1")
    \/ \E parent_division_id, child_division_id \in AnyDivisionId,
          relationship_type \in RelationshipTypes :
            AddRelationship(parent_division_id, child_division_id,
                            relationship_type)
    \/ \E parent_division_id, child_division_id \in AnyDivisionId,
          relationship_type \in RelationshipTypes :
            DeleteRelationship(parent_division_id, child_division_id,
                               relationship_type)

SpecRelationship == Init /\ [][NextRelationship]_vars

\* C5: add_relationship with parent_division_id equal to child_division_id
\* always raises and creates no relationship row, for every
\* relationship_type and every state of the store.
C5_NoSelfRelationship ==
    /\ \A r \in db.relationships : r.parent_division_id # r.child_division_id
    /\ (result.op = "add_relationship" /\ result.args[1] = result.args[2])
          => result.status = "ValueError"

\* a self-relationship was refused on a store that holds relationships of
\* the division
C5_Witness ==
    /\ result.op = "add_relationship"
    /\ result.args[1] = result.args[2]
    /\ result.status = "ValueError"
    /\ \E r \in db.relationships : r.parent_division_id = result.args[1]
    /\ \E r \in db.relationships : r.child_division_id = result.args[1]

SameTriple(r1, r2) ==
    /\ r1.parent_division_id = r2.parent_division_id
    /\ r1.child_division_id = r2.child_division_id
    /\ r1.relationship_type = r2.relationship_type

\* C6: after any sequence of add_relationship and delete_relationship
\* calls, the relationships table holds at most one row for each
\* (parent_division_id, child_division_id, relationship_type) triple.
C6_TripleUnique ==
    \A r1, r2 \in db.relationships : SameTriple(r1, r2) => r1 = r2

\* add_relationship was called for a triple that is in the table, after a
\* delete, and the table holds that triple once
C6_Witness ==
    /\ result.op = "add_relationship"
    /\ result.status = "ok"
    /\ Cardinality({r \in db.relationships :
                        /\ r.parent_division_id = result.args[1]
                        /\ r.child_division_id = result.args[2]
                        /\ r.relationship_type = result.args[3]}) = 1
    /\ db.relationships # {}
    /\ \A r \in db.relationships : r.id > 1

\* the add_relationship call that produced result' was made for a triple
\* that the table already held
C7_Case ==
    /\ result'.op = "add_relationship"
    /\ \E r \in db.relationships :
          /\ r.parent_division_id = result'.args[1]
          /\ r.child_division_id = result'.args[2]
          /\ r.relationship_type = result'.args[3]

\* C7: add_relationship with a (parent, child, relationship_type) triple
\* that already exists raises an error.
C7_DuplicateRaises ==
    [][C7_Case => result'.status # "ok"]_vars

(***************************************************************************)
(* Lists of DatabaseStorage over a cache of divisions: calls interleaved   *)
(* with conn.commit() and conn.rollback() of the connection.               *)
(***************************************************************************)
ListSystemIds == {"ovt-a", "ovt-b"}

\* division ids a caller may pass as items: the ids of the cached
\* divisions and one id that is never cached
ItemDivisionIds == 1..(Cardinality(ListSystemIds) + 1)

\* callers pass division ids for a division list and CRM system_ids
\* otherwise
ItemIdSeqs(list_type) ==
    IF list_type = "division" THEN ItemSeqs(ItemDivisionIds)
    ELSE ItemSeqs({"X"})

ListTypeOf(t, list_id) ==
    IF \E l \in t.lists : l.id = list_id /\ l.type = "client"
    THEN "client" ELSE "division"

NextList ==
    \/ \E system_id \in ListSystemIds : SaveDivision(system_id, "n1")
    \/ \E name \in ListNames, list_type \in ListTypes \cup BadListTypes :
          \E item_ids \in ItemIdSeqs(list_type) :
            CreateList(name, list_type, item_ids, "")
    \/ \E list_id \in 1..MaxLists :
          \E item_ids \in ItemIdSeqs(ListTypeOf(db, list_id)) :
            UpdateListItems(list_id, item_ids)
    \/ Commit
    \/ Rollback

SpecList == Init /\ [][NextList]_vars

\* the create_list call that produced result' was made with items and with
\* the name and type of a list that existed
C8_Case ==
    /\ result'.op = "create_list"
    /\ result'.args[3] # <<>>
    /\ \E l \in db.lists : /\ l.name = result'.args[1]
                            /\ l.type = result'.args[2]

C9_ItemsReplaced ==
    (result.op = "update_list_items" /\ result.status = "ok")
        => get_list_items(db, result.args[1]) = SeqToSet(result.args[2])

\* update_list_items returned on a list that had a committed item outside
\* the new ids and lacked one of the new ids
C9_Witness ==
    /\ result.op = "update_list_items"
    /\ result.status = "ok"
    /\ get_list_items(disk, result.args[1]) \ SeqToSet(result.args[2]) # {}
    /\ SeqToSet(result.args[2]) \ get_list_items(disk, result.args[1]) # {}

\* C10: update_list_items is all-or-nothing: if it raises after the old
\* items were deleted, the list's persisted item set is the old one, never
\* empty and never a mix of old and new, also after a later commit on the
\* same storage object.
C10_UpdateAllOrNothing ==
    result.op = "commit" =>
        \A a \in aborted : get_list_items(disk, a.list_id) = a.old

(***************************************************************************)
(* Reading a list back.  get_list_items selects the rows of a list with a  *)
(* JOIN (division lists) or a single-table SELECT (client lists) that has  *)
(* no ORDER BY, and create_list / update_list_items store no position with *)
(* a row: the order of the returned rows is whatever access path the       *)
(* query planner walks (rowid order when it scans list_divisions, id order *)
(* when it walks an index on (list_id, division_id)).                      *)
(***************************************************************************)
\* every arrangement of the elements of S
Arrangements(S) ==
    {s \in SeqsUpTo(S, Cardinality(S)) :
        Len(s) = Cardinality(S) /\ SeqToSet(s) = S}

\* the division ids of the list's list_divisions rows that join a
\* divisions row, in rowid (insertion) order
list_divisions_by_rowid(t, list_id) ==
    LET Joined(r) == /\ r.list_id = list_id
                     /\ \E d \in t.divisions : d.id = r.division_id
        rows == SelectSeq(t.list_divisions, Joined)
    IN  [i \in 1..Len(rows) |-> rows[i].division_id]

\* the orders in which the SELECT of get_list_items can return its rows:
\* rowid order or the order of an index on (list_id, division_id) for a
\* division list, any order of the system_ids for a client list
RowOrders(t, list_id) ==
    IF ListTypeOf(t, list_id) = "division"
    THEN LET by_rowid == list_divisions_by_rowid(t, list_id)
         IN  {by_rowid, SortSeq(by_rowid, <)}
    ELSE Arrangements(get_list_items(t, list_id))

GetListItems(list_id) ==
    \E rows \in RowOrders(db, list_id) :
        /\ result' = Outcome("get_list_items", "ok",
                             IF get_list(db, list_id) = {} THEN <<>> ELSE rows,
                             <<list_id>>)
        /\ UNCHANGED <<conns, world, st_cache, db, disk, returned, aborted, mappings, mappings_seq,
                       store, txn, reader>>

NextListOrder ==
    \/ \E system_id \in ListSystemIds : SaveDivision(system_id, "n1")
    \/ \E name \in ListNames, list_type \in ListTypes :
           \E item_ids \in ItemIdSeqs(list_type) :
               CreateList(name, list_type, item_ids, "")
    \/ \E list_id \in 1..MaxLists :
           \E item_ids \in ItemIdSeqs(ListTypeOf(db, list_id)) :
               UpdateListItems(list_id, item_ids)
    \/ \E list_id \in 1..MaxLists : GetListItems(list_id)

SpecListOrder == Init /\ [][NextListOrder]_vars

\* get_list_items(list_id) is called right after a create_list or an
\* update_list_items of the division list list_id that succeeded
C11_Case ==
    /\ result'.op = "get_list_items"
    /\ result.status = "ok"
    /\ \/ /\ result.op = "create_list"
          /\ result.args[2] = "division"
          /\ result.value = {result'.args[1]}
       \/ /\ result.op = "update_list_items"
          /\ result.args[1] = result'.args[1]
          /\ ListTypeOf(db, result.args[1]) = "division"

\* the item_ids argument of the create_list / update_list_items call
C11_Passed ==
    IF result.op = "create_list" THEN result.args[3] ELSE result.args[2]

\* C11: get_list_items on a division list returns the divisions in the
\* order in which their ids were passed to the create_list or
\* update_list_items call that wrote the list last.
C11_OrderPreserved ==
    [][C11_Case => result'.value = C11_Passed]_vars

(***************************************************************************)
(* create_list that raises while inserting its items.                      *)
(***************************************************************************)
\* create_list raised sqlite3.IntegrityError and the caller, having caught
\* it, commits the connection
C12_Case ==
    /\ result.op = "create_list"
    /\ result.status = "IntegrityError"
    /\ result'.op = "commit"

\* the lists rows written by the create_list call of `result`: the call
\* passed the duplicate check, so no other row has its name and type
C12_ListRows(t) ==
    {l \in t.lists : l.name = result.args[1] /\ l.type = result.args[2]}

\* C12: create_list is all-or-nothing: when it raises after its lists
\* row was inserted, no lists, list_divisions or list_clients row written
\* by the call becomes persistent, also when the caller catches the
\* exception and commits.
C12_CreateAllOrNothing ==
    [][C12_Case =>
          /\ C12_ListRows(disk') = {}
          /\ \A l \in C12_ListRows(db) :
                /\ \A i \in 1..Len(disk'.list_divisions) :
                       disk'.list_divisions[i].list_id # l.id
                /\ \A i \in 1..Len(disk'.list_clients) :
                       disk'.list_clients[i].list_id # l.id]_vars

(***************************************************************************)
(* DatabaseStorage as a context manager: `with DatabaseStorage(p) as s:`   *)
(* connects, runs the block and calls __exit__ with the type of the        *)
(* exception that left the block, or None.  __exit__ closes the            *)
(* connection, so the next block works on a fresh one.                     *)
(***************************************************************************)
ExcTypes == {"None", "ValueError"}

\* an __exit__ that commits whatever way the block was left
__exit___CommitAlways(conn_tables, committed, exc_type) == conn_tables

\* the committed tables after __exit__: conn.commit() when exc_type is
\* None, conn.rollback() otherwise
__exit__(conn_tables, committed, exc_type) ==
    IF exc_type = "None" THEN conn_tables ELSE committed

ExitContext(exc_type) ==
    /\ disk' = __exit__(db, disk, exc_type)
    /\ db' = disk'
    /\ result' = Outcome("__exit__", "ok",
                         IF db = disk THEN {} ELSE {"pending writes"},
                         <<exc_type>>)
    /\ aborted' = {}
    /\ returned' = [s \in SystemIds |-> {}]
    /\ UNCHANGED <<conns, world, st_cache, mappings, mappings_seq, store, txn, reader>>

NextContext ==
    \/ \E system_id \in ListSystemIds : SaveDivision(system_id, "n1")
    \/ \E name \in ListNames : \E item_ids \in ItemIdSeqs("division") :
           CreateList(name, "division", item_ids, "")
    \/ \E list_id \in 1..MaxLists :
           \E item_ids \in ItemIdSeqs(ListTypeOf(db, list_id)) :
               UpdateListItems(list_id, item_ids)
    \/ \E exc_type \in ExcTypes : ExitContext(exc_type)

SpecContext == Init /\ [][NextContext]_vars

\* C14: leaving a with-block normally commits all the writes made in the
\* block together, leaving it on an exception rolls all of them back: a
\* connection opened afterwards sees the tables as the block left them or
\* as the block found them, never a part of the writes.
C14_ExitCommitsOrRollsBack ==
    [][result'.op = "__exit__" =>
          /\ result'.args[1] = "None" => disk' = db
          /\ result'.args[1] # "None" => disk' = disk
          /\ db' = disk']_vars

\* a block that found committed divisions and no list was left on an
\* exception with writes pending, and a later connection finds the same
C14_Witness ==
    /\ result.op = "__exit__"
    /\ result.args[1] = "ValueError"
    /\ result.value # {}
    /\ disk.divisions # {}
    /\ disk.lists = {}

(***************************************************************************)
(* Deleting a cached division: DELETE FROM divisions WHERE id = ? on the   *)
(* connection of DatabaseStorage, as the tests issue it.  The foreign keys *)
(* of sql/schema.sql act only because __init__ switches them on for the    *)
(* connection.                                                             *)
(***************************************************************************)
\* a connection left with SQLite's default, foreign keys not enforced
foreign_keys_Default == FALSE

\* self.conn.execute("PRAGMA foreign_keys = ON")
foreign_keys == TRUE

\* crm_mappings.division_id, relationships.parent_division_id and
\* relationships.child_division_id are declared ON DELETE CASCADE
SchemaDivisionDeleteCascade(t, division_id) ==
    [t EXCEPT !.crm_mappings = {m \in @ : m.division_id # division_id},
              !.relationships =
                  {r \in @ : /\ r.parent_division_id # division_id
                             /\ r.child_division_id # division_id}]

\* list_divisions.division_id REFERENCES divisions(id): a division that is
\* an item of a list is either refused (no ON DELETE action) or its item
\* rows go with it (ON DELETE CASCADE)
SchemaListDivisionDelete(before, after, division_id) ==
    LET Other(r) == r.division_id # division_id
    IN  IF \A i \in 1..Len(before.list_divisions) :
               Other(before.list_divisions[i])
        THEN {StmtOk(after)}
        ELSE {StmtError(before),
              StmtOk([after EXCEPT !.list_divisions = SelectSeq(@, Other)])}

\* the outcomes of DELETE FROM divisions WHERE id = ?
delete_division_sql(t, division_id) ==
    LET deleted == [t EXCEPT !.divisions = {d \in @ : d.id # division_id}]
    IN  IF foreign_keys
        THEN SchemaListDivisionDelete(
                 t, SchemaDivisionDeleteCascade(deleted, division_id),
                 division_id)
        ELSE {StmtOk(deleted)}

\* rows of t that reference the division
ReferencingRows(t, division_id) ==
    [crm_mappings  |-> {m \in t.crm_mappings : m.division_id = division_id},
     relationships |-> {r \in t.relationships :
                           \/ r.parent_division_id = division_id
                           \/ r.child_division_id = division_id}]

DeleteDivision(division_id) ==
    \E stmt \in delete_division_sql(db, division_id) :
        /\ db' = stmt.tables
        /\ result' = Outcome("delete_division", stmt.status,
                             ReferencingRows(db, division_id),
                             <<division_id>>)
        /\ UNCHANGED <<conns, world, st_cache, disk, returned, aborted, mappings, mappings_seq,
                       store, txn, reader>>

\* rowids of divisions in the cascade model
CascadeDivisionIds == 1..Cardinality(ListSystemIds)

NextCascade ==
    \/ \E system_id \in ListSystemIds :
           /\ get_division_by_system_id(db, system_id) = {}
                  => NextRowId(db.divisions) \in CascadeDivisionIds
           /\ SaveDivision(system_id, "n1")
    \/ \E division_id \in CascadeDivisionIds :
           SaveMapping("X", division_id, "n1", "")
    \/ \E parent_division_id, child_division_id \in CascadeDivisionIds,
          relationship_type \in RelationshipTypes :
           AddRelationship(parent_division_id, child_division_id,
                           relationship_type)
    \/ \E division_id \in CascadeDivisionIds : DeleteDivision(division_id)

SpecCascade == Init /\ [][NextCascade]_vars

\* no crm_mappings or relationships row of t references a missing division
NoOrphans(t) ==
    /\ \A m \in t.crm_mappings : SchemaMappingForeignKey(t, m)
    /\ \A r \in t.relationships : SchemaRelationshipForeignKeys(t, r)

\* C15: deleting a divisions row removes, in the same statement and
\* transaction, the CRM mapping of the division and every relationship
\* that has it as parent or child: no row referencing the deleted division
\* is left in the transaction of the connection.
C15_DeleteCascades ==
    /\ NoOrphans(db)
    /\ (result.op = "delete_division" /\ result.status = "ok") =>
           /\ ReferencingRows(db, result.args[1]).crm_mappings = {}
           /\ ReferencingRows(db, result.args[1]).relationships = {}

\* a division with one mapping and two outgoing relationships was deleted
C15_Witness ==
    /\ result.op = "delete_division"
    /\ result.status = "ok"
    /\ Cardinality(result.value.crm_mappings) = 1
    /\ Cardinality({r \in result.value.relationships :
                       r.parent_division_id = result.args[1]}) = 2
    /\ db.divisions # {}

(***************************************************************************)
(* Database: division_info, mappings and relationships.  Division ids are  *)
(* Overture ids here (the values of SystemIds).  Database creates the      *)
(* mappings table of CRMMappingStorage (load_sql('crm_mapping_storage',    *)
(* 'init_schema')); its relationships table rejects a repeated             *)
(* (parent, child, type) and a self-reference.                             *)
(***************************************************************************)
InfoDivisionIds == {"ovt-a", "ovt-b"}

\* metadata a caller passes for a division: a name, or None
InfoNames == Names \cup {"None"}

\* ensure_division_info: the tables after its commit.  An existing row is
\* updated when a name is given, a missing row is inserted.
ensure_division_info(t, division_id, division_name) ==
    LET existing == {i \in t.division_info : i.division_id = division_id}
        row == [division_id |-> division_id, division_name |-> division_name]
    IN  IF existing # {}
        THEN IF division_name # "None"
             THEN [t EXCEPT !.division_info = (@ \ existing) \cup {row}]
             ELSE t
        ELSE [t EXCEPT !.division_info = @ \cup {row}]

\* Database.add_mapping(system_id, ..., division_id, division_name, ...)
DatabaseAddMapping(system_id, division_id, division_name) ==
    LET with_info == ensure_division_info(store, division_id, division_name)
        row == [system_id |-> system_id, division_id |-> division_id,
                division_name |-> division_name]
        args == <<system_id, division_id, division_name>>
    IN  /\ IF MappingsTableAccepts(with_info.mappings, row)
           THEN /\ store' = [with_info EXCEPT !.mappings = @ \cup {row}]
                /\ result' = Outcome("Database.add_mapping", "ok", {}, args)
           ELSE /\ store' = with_info
                /\ result' = Outcome("Database.add_mapping", "IntegrityError",
                                     {}, args)
        /\ UNCHANGED <<conns, world, st_cache, db, disk, returned, aborted, mappings, mappings_seq,
                       txn, reader>>

\* Database.add_relationship(child, parent, type, child_metadata=...,
\* parent_metadata=...): a metadata argument is the name it carries, or None
DatabaseAddRelationship(child_division_id, parent_division_id, relationship_type, child_metadata, parent_metadata) ==
    LET with_child ==
            IF child_metadata # "None"
            THEN ensure_division_info(store, child_division_id, child_metadata)
            ELSE store
        with_info ==
            IF parent_metadata # "None"
            THEN ensure_division_info(with_child, parent_division_id,
                                      parent_metadata)
            ELSE with_child
        row == [child_division_id |-> child_division_id,
                parent_division_id |-> parent_division_id,
                relationship_type |-> relationship_type]
        args == <<child_division_id, parent_division_id, relationship_type,
                  child_metadata, parent_metadata>>
    IN  /\ IF /\ SchemaRelationshipUnique(with_info.relationships, row)
              /\ SchemaRelationshipCheck(row)
           THEN /\ store' = [with_info EXCEPT !.relationships = @ \cup {row}]
                /\ result' = Outcome("Database.add_relationship", "ok", {},
                                     args)
           ELSE /\ store' = with_info
                /\ result' = Outcome("Database.add_relationship",
                                     "IntegrityError", {}, args)
        /\ UNCHANGED <<conns, world, st_cache, db, disk, returned, aborted, mappings, mappings_seq,
                       txn, reader>>

NextInfo ==
    \/ \E system_id \in CrmIds, division_id \in InfoDivisionIds,
          division_name \in Names :
           DatabaseAddMapping(system_id, division_id, division_name)
    \/ \E child_division_id, parent_division_id \in InfoDivisionIds,
          child_metadata, parent_metadata \in InfoNames :
           DatabaseAddRelationship(child_division_id, parent_division_id,
                                   "reports_to", child_metadata,
                                   parent_metadata)

SpecInfo == Init /\ [][NextInfo]_vars

\* C13: Database.add_mapping and Database.add_relationship write the
\* division_info rows and the mapping or relationship row atomically: a
\* call that raises sqlite3.IntegrityError has created or changed no
\* division_info row.
C13_InfoAtomic ==
    [][(/\ result'.op \in {"Database.add_mapping",
                           "Database.add_relationship"}
        /\ result'.status = "IntegrityError")
          => store'.division_info = store.division_info]_vars

(***************************************************************************)
(* Database / ListDatabaseStorage: saved lists.  save_list, load_list and  *)
(* delete_list are the same code in both classes.  An item is a dict,      *)
(* modelled as a record that may lack keys; None is the string "None".     *)
(* Items carry no geometry.                                                *)
(***************************************************************************)
MaxListId == 2         \* largest AUTOINCREMENT id of a list row

SavedListTypes == {"boundary", "crm_client"}

\* rejected by CHECK(list_type IN ('boundary', 'crm_client'))
BadSavedListTypes == {"division"}

\* values of datetime.utcnow().isoformat()
Timestamps == {"t1", "t2"}

\* list ids are tuples, so that chosen and generated ids compare; None is
\* the empty tuple
NoListId == <<>>

\* list_id arguments chosen by the caller
CallerListIds == {<<"L1">>}

\* boundary items: two divisions, one of them under two names
BoundaryItems ==
    {[division_id |-> d, name |-> n, subtype |-> "region", country |-> "US"] :
        <<d, n>> \in {<<"ovt-a", "n1">>, <<"ovt-a", "n2">>, <<"ovt-b", "n1">>}}

CrmClientItems ==
    {[system_id |-> "X", account_name |-> "n1", division_id |-> "ovt-a",
      division_name |-> "n1", country |-> "US", custom_admin_level |-> "",
      overture_subtype |-> "region"]}

\* item.get(key, '')
Get(item, key) == IF key \in DOMAIN item THEN item[key] ELSE ""

\* ','.join(sorted(ids)): determined by how often each id occurs
sorted_join(ids) ==
    [d \in SeqToSet(ids) |-> Cardinality({i \in 1..Len(ids) : ids[i] = d})]

\* hashlib.md5(f"{','.join(sorted(ids))}_{timestamp}"), represented by the
\* digested content
generate_list_id(initial_division_ids, timestamp) ==
    <<"md5", sorted_join(initial_division_ids), "_", timestamp>>

\* CHECK(list_type IN ('boundary', 'crm_client')) of list
ListTypeCheck(list_type) == list_type \in {"boundary", "crm_client"}

\* the columns _find_or_create_metadata extracts from an item
metadata_fields(item, metadata_type) ==
    IF metadata_type = "boundary"
    THEN [division_id        |-> Get(item, "division_id"),
          metadata_type      |-> metadata_type,
          division_name      |-> Get(item, "name"),
          division_subtype   |-> Get(item, "subtype"),
          country            |-> Get(item, "country"),
          system_id          |-> "None",
          account_name       |-> "None",
          custom_admin_level |-> "None"]
    ELSE [division_id        |-> Get(item, "division_id"),
          metadata_type      |-> metadata_type,
          division_name      |-> Get(item, "division_name"),
          division_subtype   |-> Get(item, "overture_subtype"),
          country            |-> Get(item, "country"),
          system_id          |-> Get(item, "system_id"),
          account_name       |-> Get(item, "account_name"),
          custom_admin_level |-> Get(item, "custom_admin_level")]

\* a lookup that never finds a metadata row
find_metadata_None(t, fields) == {}

\* SELECT id FROM division_metadata WHERE division_id = ? AND
\* metadata_type = ? [AND system_id = ?] LIMIT 1: the matching rows
find_metadata(t, fields) ==
    {m \in t.division_metadata :
        /\ m.division_id = fields.division_id
        /\ m.metadata_type = fields.metadata_type
        /\ fields.metadata_type # "boundary" => m.system_id = fields.system_id}

\* a found metadata row that is used as it is
update_metadata_Keep(old, fields) == old

\* UPDATE division_metadata SET division_name = ?, division_subtype = ?,
\* country = ?, account_name = ?, custom_admin_level = ?, geometry = ?
\* WHERE id = ?
update_metadata(old, fields) ==
    [old EXCEPT !.division_name = fields.division_name,
                !.division_subtype = fields.division_subtype,
                !.country = fields.country,
                !.account_name = fields.account_name,
                !.custom_admin_level = fields.custom_admin_level]

\* _find_or_create_metadata: the tables and the id it returns.  A found
\* row (the first in rowid order) gets the descriptive columns of the
\* item; otherwise a row is inserted.
_find_or_create_metadata(t, item, metadata_type) ==
    LET fields == metadata_fields(item, metadata_type)
        existing == find_metadata(t, fields)
    IN  IF existing # {}
        THEN LET metadata_id == CHOOSE i \in {m.id : m \in existing} :
                                    \A m \in existing : i <= m.id
                 old == CHOOSE m \in existing : m.id = metadata_id
                 new == update_metadata(old, fields)
             IN  [tables |-> [t EXCEPT !.division_metadata =
                                           (@ \ {old}) \cup {new}],
                  metadata_id |-> metadata_id]
        ELSE LET metadata_id == NextRowId(t.division_metadata)
                 new == [id |-> metadata_id] @@ fields
             IN  [tables |-> [t EXCEPT !.division_metadata = @ \cup {new}],
                  metadata_id |-> metadata_id]

\* the list rows of SELECT id FROM list WHERE list_id = ?
select_list(t, list_id) == {l \in t.list : l.list_id = list_id}

\* save_list up to the loop over the items: UPDATE list and DELETE FROM
\* list_item for an existing list, INSERT INTO list otherwise
save_list_head(t, list_name, description, list_type, list_id) ==
    LET existing == select_list(t, list_id)
    IN  IF ~ListTypeCheck(list_type)
        THEN [status |-> "IntegrityError", tables |-> t, list_db_id |-> 0]
        ELSE IF existing # {}
        THEN LET old == CHOOSE l \in existing : TRUE
                 new == [old EXCEPT !.list_name = list_name,
                                    !.description = description,
                                    !.list_type = list_type]
             IN  [status |-> "ok",
                  tables |-> [t EXCEPT
                      !.list = (@ \ {old}) \cup {new},
                      !.list_item = {i \in @ : i.list_id # old.id}],
                  list_db_id |-> old.id]
        ELSE [status |-> "ok",
              tables |-> [t EXCEPT
                  !.list = @ \cup {[id |-> t.list_seq + 1,
                                    list_id |-> list_id,
                                    list_type |-> list_type,
                                    list_name |-> list_name,
                                    description |-> description]},
                  !.list_seq = @ + 1],
              list_db_id |-> t.list_seq + 1]

\* one round of the loop of save_list: item number idx (from 0)
save_list_item(t, list_db_id, item, idx, list_type) ==
    LET found == _find_or_create_metadata(t, item, list_type)
    IN  [found.tables EXCEPT !.list_item =
            @ \cup {[list_id |-> list_db_id,
                     metadata_id |-> found.metadata_id,
                     item_order |-> idx]}]

\* the loop of save_list from item number idx on
RECURSIVE save_list_items(_, _, _, _, _)
save_list_items(t, list_db_id, items, idx, list_type) ==
    IF items = <<>> THEN t
    ELSE save_list_items(
             save_list_item(t, list_db_id, Head(items), idx, list_type),
             list_db_id, Tail(items), idx + 1, list_type)

\* the division ids save_list hands to generate_list_id
item_division_ids(items) ==
    [i \in 1..Len(items) |-> Get(items[i], "division_id")]

\* the list id save_list works with
effective_list_id(items, list_id, timestamp) ==
    IF list_id = NoListId
    THEN generate_list_id(item_division_ids(items), timestamp)
    ELSE list_id

\* division_metadata.division_id is TEXT NOT NULL: the INSERT of an item
\* whose division_id is None raises sqlite3.IntegrityError
MetadataNotNull(item) == Get(item, "division_id") # "None"

\* the positions of the items the loop of save_list cannot store
rejected_items(items) == {k \in 1..Len(items) : ~MetadataNotNull(items[k])}

\* a save_list that commits what it wrote before the exception
save_list_except_Commit(committed, pending) == pending

\* except Exception as e: conn.rollback(); raise e: the committed tables
\* after a save_list that raised with `pending` written on its connection
save_list_except(committed, pending) == committed

\* Database.save_list(list_name, description, items, list_type, list_id),
\* run without another connection writing in between; description is the
\* last entry of the recorded arguments
SaveList(list_name, description, items, list_type, list_id, timestamp) ==
    LET id == effective_list_id(items, list_id, timestamp)
        head == save_list_head(store, list_name, description, list_type, id)
        args == <<list_name, items, list_type, list_id, description>>
        rejected == rejected_items(items)
        first == IF rejected = {} THEN 0
                 ELSE CHOOSE k \in rejected : \A j \in rejected : k <= j
    IN  /\ IF head.status # "ok"
           THEN /\ store' = save_list_except(store, head.tables)
                /\ result' = Outcome("save_list", head.status, NoListId, args)
           ELSE IF rejected # {}
           THEN /\ store' = save_list_except(store,
                                save_list_items(head.tables, head.list_db_id,
                                                SubSeq(items, 1, first - 1),
                                                0, list_type))
                /\ result' = Outcome("save_list", "IntegrityError", NoListId, args)
           ELSE /\ store' = save_list_items(head.tables, head.list_db_id,
                                            items, 0, list_type)
                /\ result' = Outcome("save_list", "ok", id, args)
        /\ UNCHANGED <<conns, world, st_cache, db, disk, returned, aborted, mappings, mappings_seq,
                       txn, reader>>

\* rows of list_item i JOIN division_metadata m ON i.metadata_id = m.id
\* WHERE i.list_id = ?, each with its metadata row
select_items(t, list_db_id) ==
    {[item_order |-> i.item_order, m |-> m] :
        <<i, m>> \in {p \in t.list_item \X t.division_metadata :
                         /\ p[1].list_id = list_db_id
                         /\ p[1].metadata_id = p[2].id}}

\* the rows in the order of their metadata rows, as without ORDER BY
RECURSIVE order_by_item_order_Unordered(_)
order_by_item_order_Unordered(rows) ==
    IF rows = {} THEN <<>>
    ELSE LET first == CHOOSE r \in rows : \A q \in rows : r.m.id <= q.m.id
         IN  <<first.m>> \o order_by_item_order_Unordered(rows \ {first})

\* ORDER BY i.item_order
RECURSIVE order_by_item_order(_)
order_by_item_order(rows) ==
    IF rows = {} THEN <<>>
    ELSE LET first == CHOOSE r \in rows :
                          \A q \in rows : r.item_order <= q.item_order
         IN  <<first.m>> \o order_by_item_order(rows \ {first})

\* _format_item: the dict load_list returns for a row
_format_item(m, list_type) ==
    IF list_type = "boundary"
    THEN [division_id |-> m.division_id,
          name        |-> m.division_name,
          subtype     |-> m.division_subtype,
          country     |-> m.country]
    ELSE [system_id          |-> m.system_id,
          account_name       |-> m.account_name,
          division_id        |-> m.division_id,
          division_name      |-> m.division_name,
          country            |-> m.country,
          custom_admin_level |-> m.custom_admin_level,
          overture_subtype   |-> m.division_subtype,
          geometry           |-> "None"]

\* the dict load_list builds from the list row it fetched and the tables
\* its second SELECT reads
load_list_dict(list_row, t) ==
    LET rows == order_by_item_order(select_items(t, list_row.id))
    IN  [list_id    |-> list_row.list_id,
         list_name  |-> list_row.list_name,
         description |-> IF list_row.description = "None" THEN ""
                         ELSE list_row.description,
         boundaries |-> [k \in 1..Len(rows) |->
                            _format_item(rows[k], list_row.list_type)]]

\* Database.load_list(list_id), run without a write in between
LoadList(list_id) ==
    LET list_rows == select_list(store, list_id)
    IN  /\ result' = Outcome("load_list", "ok",
                             IF list_rows = {} THEN {}
                             ELSE {load_list_dict(l, store) : l \in list_rows},
                             <<list_id>>)
        /\ UNCHANGED <<conns, world, st_cache, db, disk, returned, aborted, mappings, mappings_seq,
                       store, txn, reader>>

\* connections of ListDatabaseStorage and Database never issue
\* PRAGMA foreign_keys: SQLite's default, foreign keys are not enforced
list_foreign_keys == FALSE

\* ListDatabaseStorage.delete_list(list_id): DELETE FROM list WHERE
\* list_id = ?; list_item.list_id is declared ON DELETE CASCADE
DeleteList(list_id) ==
    LET deleted == select_list(store, list_id)
    IN  /\ store' = [store EXCEPT
                !.list = @ \ deleted,
                !.list_item =
                    IF list_foreign_keys
                    THEN {i \in @ : \A l \in deleted : i.list_id # l.id}
                    ELSE @]
        /\ result' = Outcome("delete_list", "ok", deleted # {}, <<list_id>>)
        /\ UNCHANGED <<conns, world, st_cache, db, disk, returned, aborted, mappings, mappings_seq,
                       txn, reader>>

\* item lists a caller saves
SavedItemSeqs(list_type) ==
    IF list_type = "boundary" THEN SeqsUpTo(BoundaryItems, MaxItems)
    ELSE SeqsUpTo(CrmClientItems, MaxItems)

NextSavedLists ==
    \/ \E list_type \in SavedListTypes, list_id \in CallerListIds :
           \E items \in SavedItemSeqs(list_type) :
               /\ select_list(store, list_id) = {}
                      => store.list_seq < MaxListId
               /\ SaveList("West", "", items, list_type, list_id, "t1")
    \/ \E list_type \in BadSavedListTypes, list_id \in CallerListIds :
           SaveList("West", "", <<>>, list_type, list_id, "t1")
    \/ \E list_id \in CallerListIds : LoadList(list_id)

SpecSavedLists == Init /\ [][NextSavedLists]_vars

\* save_list returned an id and load_list is called with it next
C17_Case ==
    /\ result.op = "save_list"
    /\ result.status = "ok"
    /\ result'.op = "load_list"
    /\ result'.args[1] = result.value

C18_MetadataUnique ==
    \A m1, m2 \in store.division_metadata :
        (/\ m1.division_id = m2.division_id
         /\ m1.metadata_type = m2.metadata_type
         /\ m1.metadata_type = "crm_client" => m1.system_id = m2.system_id)
            => m1 = m2

\* the same division was saved as a boundary under two names and as a CRM
\* client, and the last save named it twice
C18_Witness ==
    /\ result.op = "save_list"
    /\ result.status = "ok"
    /\ Len(result.args[2]) = 2
    /\ result.args[3] = "boundary"
    /\ result.args[2][1].division_id = result.args[2][2].division_id
    /\ result.args[2][1].name # result.args[2][2].name
    /\ \E m \in store.division_metadata :
          m.division_id = "ovt-a" /\ m.metadata_type = "crm_client"

(***************************************************************************)
(* Deleting saved lists.                                                   *)
(***************************************************************************)
NextDeleteList ==
    \/ \E list_id \in CallerListIds :
           \E items \in SavedItemSeqs("boundary") :
               /\ select_list(store, list_id) = {}
                      => store.list_seq < MaxListId
               /\ SaveList("West", "", items, "boundary", list_id, "t1")
    \/ \E list_id \in CallerListIds : LoadList(list_id)
    \/ \E list_id \in CallerListIds : DeleteList(list_id)

SpecDeleteList == Init /\ [][NextDeleteList]_vars

\* C16: once delete_list(list_id) has returned True, no list_item row
\* references the deleted list.
C16_NoItemsOfDeletedList ==
    [][(result'.op = "delete_list" /\ result'.value = TRUE) =>
          \A l \in select_list(store, result'.args[1]) :
              \A i \in store'.list_item : i.list_id # l.id]_vars

(***************************************************************************)
(* Saving without a list_id: save_list generates one.                      *)
(***************************************************************************)
\* list ids a caller can pass: None, and those save_list returned
KnownListIds == {NoListId} \cup {l.list_id : l \in store.list}

NextListIds ==
    \/ \E list_id \in KnownListIds, timestamp \in Timestamps :
           \E items \in SeqsUpTo({[division_id |-> "ovt-a", name |-> "n1",
                                   subtype |-> "region", country |-> "US"]},
                                 MaxItems) :
               /\ select_list(store,
                      effective_list_id(items, list_id, timestamp)) = {}
                      => store.list_seq < MaxListId
               /\ SaveList("West", "", items, "boundary", list_id, timestamp)
    \/ \E list_id \in KnownListIds \ {NoListId} : LoadList(list_id)

SpecListIds == Init /\ [][NextListIds]_vars

\* C19: saving the same logical list twice (same name, type and items, no
\* list_id) creates no second list row.
C19_NoSecondRow ==
    [][(/\ result.op = "save_list" /\ result.status = "ok"
        /\ result'.op = "save_list" /\ result'.status = "ok"
        /\ result'.args = result.args
        /\ result.args[4] = NoListId)
          => Cardinality(store'.list) = Cardinality(store.list)]_vars

(***************************************************************************)
(* save_list and load_list on connections of their own, statement by       *)
(* statement.  save_list commits once, after the last item; until then its *)
(* writes are in `txn.tables`.  load_list runs two SELECTs in autocommit   *)
(* mode: each reads the database as committed at that moment.              *)
(***************************************************************************)
ConcurrentItems ==
    {[division_id |-> d, name |-> "n1", subtype |-> "region",
      country |-> "US"] : d \in InfoDivisionIds}

\* a database in which a SELECT of another connection reads the pending
\* writes of save_list
visible_tables_Uncommitted(committed, writer) ==
    IF writer.active THEN writer.tables ELSE committed

\* the tables a SELECT of load_list reads while save_list has `writer`
\* pending on its own connection: the committed ones
visible_tables(committed, writer) == committed

\* save_list from its start to the first round of its loop
SaveListBegin(list_name, description, items, list_type, list_id, timestamp) ==
    LET id == effective_list_id(items, list_id, timestamp)
        head == save_list_head(store, list_name, description, list_type, id)
        args == <<list_name, items, list_type, list_id, description>>
    IN  /\ ~txn.active
        /\ IF head.status = "ok"
           THEN /\ txn' = [active |-> TRUE, saved |-> txn.saved,
                           tables |-> head.tables,
                           list_db_id |-> head.list_db_id,
                           list_id |-> id, list_type |-> list_type,
                           items |-> items, idx |-> 0, args |-> args]
                /\ result' = result
           ELSE /\ txn' = txn
                /\ result' = Outcome("save_list", head.status, NoListId, args)
        /\ UNCHANGED <<conns, world, st_cache, db, disk, returned, aborted, mappings, mappings_seq,
                       store, reader>>

\* one round of the loop of save_list
SaveListItem ==
    /\ txn.active
    /\ txn.items # <<>>
    /\ txn' = [txn EXCEPT
                  !.tables = save_list_item(@, txn.list_db_id,
                                            Head(txn.items), txn.idx,
                                            txn.list_type),
                  !.items = Tail(@),
                  !.idx = @ + 1]
    /\ UNCHANGED <<conns, world, st_cache, db, disk, result, returned, aborted, mappings,
                   mappings_seq, store, reader>>

\* conn.commit(); return list_id
SaveListCommit ==
    /\ txn.active
    /\ txn.items = <<>>
    /\ store' = txn.tables
    /\ txn' = [active |-> FALSE,
               saved |-> {h \in txn.saved : h.list_id # txn.list_id} \cup
                         {[list_id |-> txn.list_id,
                           ids |-> item_division_ids(txn.args[2])]}]
    /\ result' = Outcome("save_list", "ok", txn.list_id, txn.args)
    /\ UNCHANGED <<conns, world, st_cache, db, disk, returned, aborted, mappings, mappings_seq,
                   reader>>

\* load_list up to list_row = cursor.fetchone()
LoadListSelectList(list_id) ==
    LET list_rows == select_list(visible_tables(store, txn), list_id)
    IN  /\ ~reader.active
        /\ IF list_rows = {}
           THEN /\ result' = Outcome("load_list", "ok", {}, <<list_id>>)
                /\ reader' = reader
           ELSE /\ result' = result
                /\ reader' = [active |-> TRUE,
                              list_row |-> CHOOSE l \in list_rows : TRUE]
        /\ UNCHANGED <<conns, world, st_cache, db, disk, returned, aborted, mappings, mappings_seq,
                       store, txn>>

\* load_list from the SELECT of the items to its return
LoadListSelectItems ==
    /\ reader.active
    /\ result' = Outcome("load_list", "ok",
                         {load_list_dict(reader.list_row,
                                         visible_tables(store, txn))},
                         <<reader.list_row.list_id>>)
    /\ reader' = NoReader
    /\ UNCHANGED <<conns, world, st_cache, db, disk, returned, aborted, mappings, mappings_seq,
                   store, txn>>

NextConcurrent ==
    \/ \E list_id \in CallerListIds :
           \E items \in SeqsUpTo(ConcurrentItems, MaxItems) :
               /\ select_list(store, list_id) = {}
                      => store.list_seq < MaxListId
               /\ SaveListBegin("West", "", items, "boundary", list_id, "t1")
    \/ SaveListItem
    \/ SaveListCommit
    \/ \E list_id \in CallerListIds : LoadListSelectList(list_id)
    \/ LoadListSelectItems

SpecConcurrent == Init /\ [][NextConcurrent]_vars

\* the division ids of the entries load_list returned
C20_Returned(d) ==
    [k \in 1..Len(d.boundaries) |-> d.boundaries[k].division_id]

\* the item sequences a load_list of the list may return at this moment:
\* the one that committed last and, while a save_list of the list is
\* running, the one it is writing
C20_Complete(list_id) ==
    {h.ids : h \in {x \in txn.saved : x.list_id = list_id}} \cup
    (IF txn.active /\ txn.list_id = list_id
     THEN {item_division_ids(txn.args[2])} ELSE {})

\* C20: a load_list that runs on its own connection while save_list
\* updates the list returns the complete old item sequence or the complete
\* new one, never an empty or a mixed one.
C20_OldOrNew ==
    [][(reader.active /\ ~reader'.active) =>
          \A d \in result'.value :
              C20_Returned(d) \in C20_Complete(reader.list_row.list_id)]_vars

\* load_list read the items while a save_list of the same list had
\* deleted the old items and written a part of the new ones
C20_Witness ==
    /\ result.op = "load_list"
    /\ txn.active
    /\ txn.idx = 1
    /\ txn.items # <<>>
    /\ \E d \in result.value :
          /\ d.list_id = txn.list_id
          /\ Len(d.boundaries) = 2
          /\ C20_Returned(d) # item_division_ids(txn.args[2])

(***************************************************************************)
(* DatabaseStorage.get_organizational_descendants: one call on a           *)
(* relationship graph over three cached divisions.  The graph and the      *)
(* arguments of the call are drawn at the start; `reader` holds the call   *)
(* until it returns.                                                       *)
(***************************************************************************)
MaxEdges == 4               \* rows in relationships of a drawn graph
MaxDepth == 2               \* largest max_depth a caller passes
RowCeiling == 536870912     \* rows of org_descendants a call can get through

\* depth_limit = 999 if max_depth is None
DefaultDepthLimit == 999

\* max_depth: None, or an integer
NoMaxDepth == <<>>
MaxDepths == {NoMaxDepth} \cup {<<d>> : d \in 0..MaxDepth}

depth_limit(max_depth) ==
    IF max_depth = NoMaxDepth THEN DefaultDepthLimit ELSE max_depth[1]

GraphSystemIds == <<"ovt-a", "ovt-b", "ovt-c">>
GraphDivisionIds == 1..Len(GraphSystemIds)

\* a relationships row of the given type from parent to child
HasEdge(t, parent_division_id, child_division_id, relationship_type) ==
    \E r \in t.relationships :
        /\ r.parent_division_id = parent_division_id
        /\ r.child_division_id = child_division_id
        /\ r.relationship_type = relationship_type

SatAdd(a, b) == IF a + b > RowCeiling THEN RowCeiling + 1 ELSE a + b

\* the rows of org_descendants of one depth are held as a set of records
\* [division_id, n]: n rows (division_id, depth)
RECURSIVE SumRows(_)
SumRows(rows) ==
    IF rows = {} THEN 0
    ELSE LET od == CHOOSE x \in rows : TRUE
         IN  SatAdd(od.n, SumRows(rows \ {od}))

\* base case of the CTE: one row (child_division_id, 1) for every
\* relationships row of the type whose parent is division_id
base_case(t, division_id, relationship_type) ==
    {[division_id |-> c, n |-> 1] :
        c \in {x \in GraphDivisionIds :
                  HasEdge(t, division_id, x, relationship_type)}}

\* a CTE whose recursive case selects no row
recursive_case_None(t, relationship_type, rows) == {}

\* recursive case of the CTE applied to the rows of one depth: one row
\* (r.child_division_id, depth + 1) for every pair of a row od and a
\* relationships row r of the type with r.parent_division_id =
\* od.division_id
recursive_case(t, relationship_type, rows) ==
    {[division_id |-> c,
      n |-> SumRows({od \in rows :
                        HasEdge(t, od.division_id, c, relationship_type)})] :
        c \in {x \in GraphDivisionIds :
                  \E od \in rows :
                      HasEdge(t, od.division_id, x, relationship_type)}}

\* one round of the CTE.  queue holds the rows sqlite has produced and not
\* yet processed, all of one depth; the round moves them to the result
\* (UNION ALL keeps every row; ids are their division_ids, rows is their
\* number, counted up to RowCeiling) and applies the recursive case to them
\* if od.depth < depth_limit.
cte_round(t, relationship_type, limit, q) ==
    LET rows == SatAdd(q.rows, SumRows(q.queue))
    IN  IF q.queue = {} THEN q
        ELSE [queue |-> IF q.depth < limit /\ rows <= RowCeiling
                        THEN recursive_case(t, relationship_type, q.queue)
                        ELSE {},
              depth |-> q.depth + 1,
              ids   |-> q.ids \cup {od.division_id : od \in q.queue},
              rows  |-> rows]

\* `rounds` rounds of the CTE, one after the other
RECURSIVE org_descendants(_, _, _, _, _)
org_descendants(t, relationship_type, limit, q, rounds) ==
    IF rounds <= 1 THEN cte_round(t, relationship_type, limit, q)
    ELSE LET first == rounds \div 2
             rest == rounds - first
         IN  CHOOSE q2 \in
                 {org_descendants(t, relationship_type, limit, q1, rest) :
                     q1 \in {org_descendants(t, relationship_type, limit, q,
                                             first)}} : TRUE

\* the recursion stops when the queue is empty: every row in the queue has
\* depth <= max(depth_limit, 1)
get_organizational_descendants(t, division_id, relationship_type, max_depth) ==
    org_descendants(t, relationship_type, depth_limit(max_depth),
                    [queue |-> base_case(t, division_id, relationship_type),
                     depth |-> 1, ids |-> {}, rows |-> 0],
                    depth_limit(max_depth))

\* the call returns once sqlite has produced every row of org_descendants;
\* SELECT DISTINCT division_id has no ORDER BY, the ids come back in an
\* order of sqlite's choosing.  A call that has more than RowCeiling rows
\* to produce is still running.
GetOrganizationalDescendants ==
    /\ reader.active
    /\ reader.op = "get_organizational_descendants"
    /\ LET cte == get_organizational_descendants(db, reader.args[1],
                                                 reader.args[2], reader.args[3])
       IN  IF cte.rows <= RowCeiling
           THEN /\ \E results \in Arrangements(cte.ids) :
                      result' = Outcome("get_organizational_descendants", "ok",
                                        results, reader.args)
                /\ reader' = NoReader
           ELSE /\ result' = Outcome("get_organizational_descendants",
                                     "running", <<>>, reader.args)
                /\ reader' = reader
    /\ UNCHANGED <<conns, world, st_cache, db, disk, returned, aborted, mappings, mappings_seq, store, txn>>

\* the relationships rows of the drawn graphs: reports_to between any two
\* cached divisions, collaborates_with from a division to a later one
GraphEdges ==
    {e \in [parent_division_id : GraphDivisionIds,
            child_division_id : GraphDivisionIds,
            relationship_type : RelationshipTypes] :
        /\ SchemaRelationshipCheck(e)
        /\ e.relationship_type = "collaborates_with"
              => e.parent_division_id < e.child_division_id}

EdgeRank(e) ==
    (e.parent_division_id * (Len(GraphSystemIds) + 1) + e.child_division_id) * 2
        + (IF e.relationship_type = "reports_to" THEN 0 ELSE 1)

\* the rows of a set of edges, ids in order of insertion
GraphRows(edges) ==
    {[id |-> Cardinality({f \in edges : EdgeRank(f) <= EdgeRank(e)}),
      parent_division_id |-> e.parent_division_id,
      child_division_id |-> e.child_division_id,
      relationship_type |-> e.relationship_type] : e \in edges}

GraphTables(edges) ==
    [EmptyTables EXCEPT
        !.divisions = {[id |-> i, system_id |-> GraphSystemIds[i],
                        name |-> "n1"] : i \in GraphDivisionIds},
        !.relationships = GraphRows(edges)]

InitDescendants ==
    /\ \E edges \in {g \in SUBSET GraphEdges : Cardinality(g) <= MaxEdges} :
          /\ db = GraphTables(edges)
          /\ disk = GraphTables(edges)
    /\ \E division_id \in GraphDivisionIds,
          relationship_type \in RelationshipTypes, max_depth \in MaxDepths :
            reader = [active |-> TRUE, op |-> "get_organizational_descendants",
                      args |-> <<division_id, relationship_type, max_depth>>]
    /\ result = Outcome("init", "ok", {}, <<>>)
    /\ returned = [s \in SystemIds |-> {}]
    /\ aborted = {}
    /\ mappings = {}
    /\ mappings_seq = 0
    /\ store = EmptyStore
    /\ txn = NoTxn
    /\ world = NoWorld
    /\ st_cache = EmptyCache
    /\ conns = NoConns

NextDescendants == GetOrganizationalDescendants

SpecDescendants == InitDescendants /\ [][NextDescendants]_vars

\* the division ids at the end of a walk of 1..d edges of the type that
\* starts at root; a division that can be reached at all is reached by a
\* walk of at most as many edges as there are divisions
Walks(d) ==
    LET longest == IF d < Len(GraphSystemIds) THEN d ELSE Len(GraphSystemIds)
    IN  UNION {[1..(k + 1) -> GraphDivisionIds] : k \in 1..longest}

ReachableWithin(t, root, relationship_type, d) ==
    {n \in GraphDivisionIds :
        \E p \in Walks(d) :
            /\ p[1] = root
            /\ p[Len(p)] = n
            /\ \A i \in 1..(Len(p) - 1) :
                  HasEdge(t, p[i], p[i + 1], relationship_type)}

\* C21: for every relationship graph, root, relationship type and
\* max_depth d >= 0, get_organizational_descendants returns exactly the
\* division ids that are reachable from root along at least 1 and at most d
\* edges of that type; without max_depth, d is 999.
C21_ExactlyReachable ==
    result.op = "get_organizational_descendants"
        => SeqToSet(result.value)
             = ReachableWithin(db, result.args[1], result.args[2],
                               depth_limit(result.args[3]))

\* C22: get_organizational_descendants returns on every finite
\* relationship graph, also on a graph with cycles, and the list it returns
\* holds no division id twice.
C22_ReturnsDistinct ==
    result.op = "get_organizational_descendants"
        => /\ result.status = "ok"
           /\ \A i, j \in 1..Len(result.value) :
                 result.value[i] = result.value[j] => i = j

(***************************************************************************)
(* Many-to-many relationships (SpecRelationship).                          *)
(***************************************************************************)
\* the edge of the add_relationship call that produced result'
C25_Edge(r) ==
    /\ r.parent_division_id = result'.args[1]
    /\ r.child_division_id = result'.args[2]
    /\ r.relationship_type = result'.args[3]

\* add_relationship was called for a new edge between two different cached
\* divisions, and the table held an edge of another type for the same
\* pair, an edge from another parent to the child, or an edge from the
\* parent to another child
C25_Case ==
    /\ result'.op = "add_relationship"
    /\ result'.args[1] # result'.args[2]
    /\ \E d \in db.divisions : d.id = result'.args[1]
    /\ \E d \in db.divisions : d.id = result'.args[2]
    /\ ~ \E r \in db.relationships : C25_Edge(r)
    /\ \E r \in db.relationships :
          \/ /\ r.parent_division_id = result'.args[1]
             /\ r.child_division_id = result'.args[2]
             /\ r.relationship_type # result'.args[3]
          \/ /\ r.parent_division_id # result'.args[1]
             /\ r.child_division_id = result'.args[2]
          \/ /\ r.parent_division_id = result'.args[1]
             /\ r.child_division_id # result'.args[2]

\* C25: add_relationship succeeds for a pair that already has an edge of a
\* different relationship_type, for a child that already has another
\* parent and for a parent that already has other children; afterwards the
\* old edges and the new edge exist together.
C25_ManyToMany ==
    [][C25_Case =>
          /\ result'.status = "ok"
          /\ db.relationships \subseteq db'.relationships
          /\ Cardinality({r \in db'.relationships : C25_Edge(r)}) = 1
          /\ Cardinality(db'.relationships)
                = Cardinality(db.relationships) + 1]_vars

\* one pair of divisions holds a reports_to and a collaborates_with edge
\* after an add_relationship
C25_Witness ==
    /\ result.op = "add_relationship"
    /\ result.status = "ok"
    /\ \E r1, r2 \in db.relationships :
          /\ r1.parent_division_id = result.args[1]
          /\ r1.child_division_id = result.args[2]
          /\ r1.relationship_type = result.args[3]
          /\ r2.parent_division_id = r1.parent_division_id
          /\ r2.child_division_id = r1.child_division_id
          /\ r2.relationship_type # r1.relationship_type
          /\ r2.id < r1.id

(***************************************************************************)
(* Empty item_ids (SpecList).                                              *)
(***************************************************************************)
\* the call that produced result' was a create_list or an update_list_items
\* with an empty item_ids
C26_Case ==
    \/ result'.op = "create_list" /\ result'.args[3] = <<>>
    \/ result'.op = "update_list_items" /\ result'.args[2] = <<>>

\* C26: create_list and update_list_items raise ValueError when item_ids is
\* empty and write nothing: no lists row is created and the items of the
\* list stay as they were.
C26_EmptyRejected ==
    [][C26_Case => /\ result'.status = "ValueError"
                   /\ db' = db]_vars

\* update_list_items was refused for an empty item_ids on a list that has
\* items
C26_Witness ==
    /\ result.op = "update_list_items"
    /\ result.args[2] = <<>>
    /\ result.status = "ValueError"
    /\ get_list_items(db, result.args[1]) # {}

(***************************************************************************)
(* DatabaseStorage.update_list on a store that holds up to MaxRenameLists  *)
(* lists, each created by create_list with one item.                       *)
(***************************************************************************)
MaxRenameLists == 2         \* rows in lists of a drawn store

RenameNames == {"West", "East"}
RenameNotes == {"", "x"}

\* name: str = None, notes: str = None
NoName == <<>>
NoNotes == <<>>

\* update_list that renames without looking at the list the lookup found
DuplicateName_Ignored(existing, list_id) == FALSE

\* if existing and existing != list_id: raise ValueError
DuplicateName(existing, list_id) ==
    existing # {} /\ existing # {list_id}

\* UPDATE lists SET name = ?, hash = ?, notes = ? ... WHERE id = ?, with the
\* columns the call updates; lists.hash is UNIQUE
update_list_sql(t, old_row, new_row) ==
    IF ~SchemaListHashUnique(t.lists \ {old_row}, new_row)
    THEN StmtError(t)
    ELSE StmtOk([t EXCEPT !.lists = (@ \ {old_row}) \cup {new_row}])

\* a rename that sets the name column only
rename_updates_NameOnly(list_data, name, new_hash) == [list_data EXCEPT !.name = name]

\* updates.extend(["name = ?", "hash = ?"]); params.extend([name, new_hash])
rename_updates(list_data, name, new_hash) == [list_data EXCEPT !.name = name, !.hash = new_hash]

UpdateList(list_id, name, notes) ==
    LET args == <<list_id, name, notes>>
        found == get_list(db, list_id)
        list_data == CHOOSE l \in found : TRUE
        renames == name # NoName /\ name # <<list_data.name>>
        new_hash == _compute_hash(name[1], list_data.type)
        existing == check_duplicate_list(db, new_hash)
        renamed == IF renames
                   THEN rename_updates(list_data, name[1], new_hash)
                   ELSE list_data
        new_row == IF notes # NoNotes
                   THEN [renamed EXCEPT !.notes = notes[1]]
                   ELSE renamed
        stmt == update_list_sql(db, list_data, new_row)
    IN  /\ IF found = {}
           THEN /\ db' = db
                /\ result' = Outcome("update_list", "ValueError", {}, args)
           ELSE IF renames /\ DuplicateName(existing, list_id)
           THEN /\ db' = db
                /\ result' = Outcome("update_list", "ValueError", existing, args)
           ELSE IF ~renames /\ notes = NoNotes
           THEN /\ db' = db
                /\ result' = Outcome("update_list", "ok", {}, args)
           ELSE /\ db' = stmt.tables
                /\ result' = Outcome("update_list", stmt.status, {}, args)
        /\ UNCHANGED <<conns, world, st_cache, disk, returned, aborted, mappings, mappings_seq, store, txn, reader>>

\* the lists of a drawn store, in the order of their creation: different
\* (name, type) pairs
RenameLists ==
    {s \in SeqsUpTo(RenameNames \X ListTypes, MaxRenameLists) :
        \A i, j \in 1..Len(s) : s[i] = s[j] => i = j}

\* the tables after create_list(name, type, [one item]) for each list of s,
\* on a cache that holds one division
RenameTables(s) ==
    LET ids(list_type) == {i \in 1..Len(s) : s[i][2] = list_type}
        ordered(S) == CHOOSE q \in Arrangements(S) :
                          \A i, j \in 1..Len(q) : i < j => q[i] < q[j]
        divs == ordered(ids("division"))
        clients == ordered(ids("client"))
    IN  [EmptyTables EXCEPT
            !.divisions = {[id |-> 1, system_id |-> "ovt-a", name |-> "n1"]},
            !.lists = {[id |-> i, name |-> s[i][1], type |-> s[i][2],
                        notes |-> "",
                        hash |-> _compute_hash(s[i][1], s[i][2])] :
                          i \in 1..Len(s)},
            !.list_divisions = [k \in 1..Len(divs) |->
                                   [list_id |-> divs[k], division_id |-> 1]],
            !.list_clients = [k \in 1..Len(clients) |->
                                 [list_id |-> clients[k], system_id |-> "X"]]]

InitRename ==
    /\ \E s \in RenameLists : db = RenameTables(s) /\ disk = RenameTables(s)
    /\ result = Outcome("init", "ok", {}, <<>>)
    /\ returned = [s \in SystemIds |-> {}]
    /\ aborted = {}
    /\ mappings = {}
    /\ mappings_seq = 0
    /\ store = EmptyStore
    /\ txn = NoTxn
    /\ reader = NoReader
    /\ world = NoWorld
    /\ st_cache = EmptyCache
    /\ conns = NoConns

NextRename ==
    \E list_id \in 1..(MaxRenameLists + 1),
       name \in {NoName} \cup {<<n>> : n \in RenameNames},
       notes \in {NoNotes} \cup {<<n>> : n \in RenameNotes} :
        UpdateList(list_id, name, notes)

SpecRename == InitRename /\ [][NextRename]_vars

\* the update_list call that produced result' named a list and gave it the
\* name of another list of the same type
C27_Case ==
    /\ result'.op = "update_list"
    /\ result'.args[2] # NoName
    /\ \E l, other \in db.lists :
          /\ l.id = result'.args[1]
          /\ other.id # l.id
          /\ other.type = l.type
          /\ other.name = result'.args[2][1]

\* C27: update_list that renames a list to a name used by another list of
\* the same type raises ValueError and leaves the name, hash and notes of
\* the list unchanged.
C27_RenameRejected ==
    [][C27_Case => /\ result'.status = "ValueError"
                   /\ get_list(db', result'.args[1])
                         = get_list(db, result'.args[1])]_vars

\* a rename to the name of another list of the type, together with new
\* notes, was refused after the list had been renamed before
C27_Witness ==
    /\ result.op = "update_list"
    /\ result.status = "ValueError"
    /\ result.args[2] # NoName
    /\ result.args[3] # NoNotes
    /\ \E l, other \in db.lists :
          /\ l.id = result.args[1]
          /\ other.id # l.id
          /\ other.type = l.type
          /\ other.name = result.args[2][1]
          /\ l.notes # result.args[3][1]
          /\ l.hash = _compute_hash(l.name, l.type)
          /\ db.lists # disk.lists

(***************************************************************************)
(* save_mapping as an update (SpecMapping).                                *)
(***************************************************************************)
\* the mappings with the system_id and the division of the save_mapping
\* call that produced result'
C28_Existing ==
    {m \in db.crm_mappings : /\ m.system_id = result'.args[1]
                             /\ m.division_id = result'.args[2]}

C28_Case ==
    /\ result'.op = "save_mapping"
    /\ C28_Existing # {}

\* C28: save_mapping called again with an existing system_id and the same
\* division updates account_name and custom_admin_level of that row in
\* place; the number of mapping rows does not change.
C28_UpdateInPlace ==
    [][C28_Case =>
          /\ result'.status = "ok"
          /\ db'.crm_mappings =
                (db.crm_mappings \ C28_Existing) \cup
                {[m EXCEPT !.account_name = result'.args[3],
                           !.custom_admin_level = result'.args[4]] :
                     m \in C28_Existing}
          /\ Cardinality(db'.crm_mappings) = Cardinality(db.crm_mappings)]_vars

\* a save_mapping with the system_id and the division of a mapping has
\* overwritten both its account_name and its custom_admin_level, next to a
\* mapping of another division
C28_Witness ==
    /\ result.op = "save_mapping"
    /\ result.status = "ok"
    /\ \E old \in result.value :
          /\ old.system_id = result.args[1]
          /\ old.division_id = result.args[2]
          /\ old.account_name # result.args[3]
          /\ old.custom_admin_level # result.args[4]
    /\ \E m \in db.crm_mappings : m.system_id # result.args[1]

(***************************************************************************)
(* OvertureQueryEngine.  Every query method is wrapped in                  *)
(* @st.cache_data(ttl=3600) and names its first parameter _self:           *)
(* st.cache_data keys an entry by the function and by the arguments whose  *)
(* names do not start with an underscore, so the engine (and its           *)
(* parquet_path) is not part of the key.  The datasets do not change.      *)
(***************************************************************************)
ParquetPaths == {"p1", "p2"}

\* rows of a divisions dataset; parent_division_id is <<>> when NULL
DatasetRows ==
    {[id |-> "c1", name |-> "n1", subtype |-> "country", country |-> "US",
      parent_division_id |-> <<>>, class |-> "land", geojson |-> "g1"],
     [id |-> "d1", name |-> "n2", subtype |-> "region", country |-> "US",
      parent_division_id |-> <<"c1">>, class |-> "land", geojson |-> "g2"],
     [id |-> "d2", name |-> "n1", subtype |-> "region", country |-> "US",
      parent_division_id |-> <<"c1">>, class |-> "land", geojson |-> "g3"],
     [id |-> "e1", name |-> "n1", subtype |-> "county", country |-> "US",
      parent_division_id |-> <<"d1">>, class |-> "land", geojson |-> "g4"],
     [id |-> "w1", name |-> "n2", subtype |-> "region", country |-> "US",
      parent_division_id |-> <<"c1">>, class |-> "maritime", geojson |-> "g5"]}

\* a dataset: read_parquet fails on it (missing, unreachable, malformed), or
\* it holds rows
Datasets ==
    {[readable |-> FALSE, rows |-> {}]} \cup
    {[readable |-> TRUE, rows |-> rows] :
        rows \in {{}, {r \in DatasetRows : r.id # "d2"}, DatasetRows}}

Countries == {"US"}
ParentDivisionIds == {"c1", "e1"}
GersIds == {"d1"}

\* ORDER BY name / ORDER BY country
NameOrder == <<"n1", "n2", "US">>
NameRank(n) == CHOOSE i \in 1..Len(NameOrder) : NameOrder[i] = n

order_by_name(rows) ==
    CHOOSE q \in Arrangements(rows) :
        \A i, j \in 1..Len(q) : i < j => NameRank(q[i].name) <= NameRank(q[j].name)

FrameColumns == <<"division_id", "name", "subtype", "country", "parent_division_id">>

\* LIMIT 1000 of get_top_level_divisions and get_child_divisions
QueryLimit == 1000

\* the first n rows of q
limit(q, n) == SubSeq(q, 1, IF Len(q) < n THEN Len(q) ELSE n)

\* conn.execute(query).fetchdf() of a SELECT id as division_id,
\* names.primary as name, subtype, country, parent_division_id ...
\* ORDER BY name LIMIT 1000
fetchdf(rows) ==
    LET q == limit(order_by_name(rows), QueryLimit)
    IN  [columns |-> FrameColumns,
         rows |-> [i \in 1..Len(q) |->
                      [division_id |-> q[i].id, name |-> q[i].name,
                       subtype |-> q[i].subtype, country |-> q[i].country,
                       parent_division_id |-> q[i].parent_division_id]]]

\* pd.DataFrame(columns=[...])
EmptyFrame == [columns |-> FrameColumns, rows |-> <<>>]

\* conn.execute(...) on the dataset of the engine: the rows the query is
\* run on, or the exception read_parquet raises
execute(dataset) ==
    IF dataset.readable THEN [status |-> "ok", rows |-> dataset.rows]
    ELSE [status |-> "Exception", rows |-> {}]

\* a method without the except clause
try_except_Reraise(status, value, fallback) ==
    [status |-> status, value |-> IF status = "ok" THEN value ELSE fallback]

\* try: return <value> / except Exception: st.error(...); return <fallback>
try_except(status, value, fallback) ==
    [status |-> "ok", value |-> IF status = "ok" THEN value ELSE fallback]

get_countries(dataset) ==
    LET res == execute(dataset)
        countries == {[name |-> r.country] : r \in res.rows}
        q == order_by_name(countries)
    IN  try_except(res.status, [i \in 1..Len(q) |-> q[i].name], <<>>)

get_top_level_divisions(dataset, country) ==
    LET res == execute(dataset)
    IN  try_except(res.status,
                   fetchdf({r \in res.rows : /\ r.country = country
                                             /\ r.class = "land"
                                             /\ r.parent_division_id = <<>>}),
                   EmptyFrame)

get_child_divisions(dataset, parent_division_id) ==
    LET res == execute(dataset)
    IN  try_except(res.status,
                   fetchdf({r \in res.rows :
                               /\ r.parent_division_id = <<parent_division_id>>
                               /\ r.class = "land"}),
                   EmptyFrame)

\* None is <<>>, a dict is a one-element tuple
get_geometry(dataset, gers_id) ==
    LET res == execute(dataset)
        found == {r \in res.rows : r.id = gers_id}
    IN  try_except(res.status,
                   IF found = {} THEN <<>>
                   ELSE LET r == CHOOSE x \in found : TRUE
                        IN  <<[geometry |-> r.geojson, name |-> r.name]>>,
                   <<>>)

\* the entries of the cache for a function and its arguments other than
\* _self
cache_lookup(cache, func, self, args) ==
    {e \in cache[func] : e.args = args}

\* a call of a method wrapped in st.cache_data: the cached value if there is
\* an entry, else the value the method returns, which is then cached; a
\* call that raises caches nothing.  self is kept in the entry for the
\* record only.
CachedCall(func, self, args, call) ==
    LET hit == cache_lookup(st_cache, func, self, args)
    IN  IF hit # {}
        THEN /\ result' = Outcome(func, "ok", (CHOOSE e \in hit : TRUE).value,
                                  <<self>> \o args)
             /\ st_cache' = st_cache
        ELSE /\ result' = Outcome(func, call.status, call.value, <<self>> \o args)
             /\ st_cache' = IF call.status = "ok"
                            THEN [st_cache EXCEPT ![func] =
                                     @ \cup {[args |-> args, self |-> self,
                                              value |-> call.value]}]
                            ELSE st_cache

EngineUnchanged ==
    UNCHANGED <<db, disk, returned, aborted, mappings, mappings_seq, store, txn, reader, world, conns>>

GetCountries(parquet_path) ==
    /\ CachedCall("get_countries", parquet_path, <<>>,
                  get_countries(world.datasets[parquet_path]))
    /\ EngineUnchanged

GetTopLevelDivisions(parquet_path, country) ==
    /\ CachedCall("get_top_level_divisions", parquet_path, <<country>>,
                  get_top_level_divisions(world.datasets[parquet_path], country))
    /\ EngineUnchanged

GetChildDivisions(parquet_path, parent_division_id) ==
    /\ CachedCall("get_child_divisions", parquet_path, <<parent_division_id>>,
                  get_child_divisions(world.datasets[parquet_path],
                                      parent_division_id))
    /\ EngineUnchanged

GetGeometry(parquet_path, gers_id) ==
    /\ CachedCall("get_geometry", parquet_path, <<gers_id>>,
                  get_geometry(world.datasets[parquet_path], gers_id))
    /\ EngineUnchanged

\* ttl=3600: an entry is dropped an hour after it was stored
CacheExpire ==
    /\ \E func \in CachedFunctions : \E e \in st_cache[func] :
          st_cache' = [st_cache EXCEPT ![func] = @ \ {e}]
    /\ result' = Outcome("ttl", "ok", {}, <<>>)
    /\ EngineUnchanged

InitEngine ==
    /\ \E datasets \in [ParquetPaths -> Datasets] :
          world = [datasets |-> datasets, files |-> <<>>]
    /\ st_cache = EmptyCache
    /\ conns = NoConns
    /\ db = EmptyTables
    /\ disk = EmptyTables
    /\ result = Outcome("init", "ok", {}, <<>>)
    /\ returned = [s \in SystemIds |-> {}]
    /\ aborted = {}
    /\ mappings = {}
    /\ mappings_seq = 0
    /\ store = EmptyStore
    /\ txn = NoTxn
    /\ reader = NoReader

NextEngine ==
    \/ \E parquet_path \in ParquetPaths : GetCountries(parquet_path)
    \/ \E parquet_path \in ParquetPaths, country \in Countries :
          GetTopLevelDivisions(parquet_path, country)
    \/ \E parquet_path \in ParquetPaths, parent_division_id \in ParentDivisionIds :
          GetChildDivisions(parquet_path, parent_division_id)
    \/ \E parquet_path \in ParquetPaths, gers_id \in GersIds :
          GetGeometry(parquet_path, gers_id)
    \/ CacheExpire

SpecEngine == InitEngine /\ [][NextEngine]_vars

QueryOps ==
    {"get_countries", "get_top_level_divisions", "get_child_divisions",
     "get_geometry"}

\* the call that produced result' ran its query (nothing was cached for
\* it) on a dataset that read_parquet fails on
QueryFailed ==
    /\ result'.op \in QueryOps
    /\ cache_lookup(st_cache, result'.op, result'.args[1],
                    Tail(result'.args)) = {}
    /\ ~world.datasets[result'.args[1]].readable

\* what the method returns when its query succeeds and matches no row
NoRowsValue(op) ==
    LET none == [readable |-> TRUE, rows |-> {}]
    IN  IF op = "get_countries" THEN get_countries(none).value
        ELSE IF op = "get_child_divisions"
        THEN get_child_divisions(none, "c1").value
        ELSE get_geometry(none, "d1").value

\* C23: when the dataset query fails, get_countries, get_child_divisions
\* and get_geometry return a result that differs from the result of a
\* successful query that matched no rows.
C23_FailureDistinct ==
    [][(QueryFailed /\ result'.op \in {"get_countries", "get_child_divisions",
                                       "get_geometry"})
          => result'.value # NoRowsValue(result'.op)]_vars

\* what each method returns from its except clause
FailureValue(op) ==
    IF op = "get_countries" THEN <<>>
    ELSE IF op = "get_geometry" THEN <<>>
    ELSE EmptyFrame

\* C24: no query operation propagates an exception of the dataset query:
\* on failure get_countries returns an empty list, get_child_divisions and
\* get_top_level_divisions an empty frame with the columns division_id,
\* name, subtype, country, parent_division_id, and get_geometry None.
C24_NoException ==
    [][/\ result'.op \in QueryOps => result'.status = "ok"
       /\ QueryFailed => /\ result'.value = FailureValue(result'.op)
                         /\ result'.op \in {"get_child_divisions",
                                            "get_top_level_divisions"}
                               => /\ result'.value.columns =
                                       <<"division_id", "name", "subtype",
                                         "country", "parent_division_id">>
                                  /\ result'.value.rows = <<>>]_vars

\* get_top_level_divisions has returned the empty frame for an engine whose
\* dataset cannot be read, and the frame is what the cache now holds
C24_Witness ==
    /\ result.op = "get_top_level_divisions"
    /\ result.status = "ok"
    /\ ~world.datasets[result.args[1]].readable
    /\ result.value = EmptyFrame
    /\ \A p \in ParquetPaths : ~world.datasets[p].readable
    /\ \E e \in st_cache["get_top_level_divisions"] : e.value = EmptyFrame

\* C30: for any sequence of calls on engines with possibly different
\* parquet_path values, get_child_divisions(p) on engine E returns what an
\* uncached query of E's own dataset returns.
C30_CacheCorrect ==
    [][result'.op = "get_child_divisions"
          => result'.value =
                get_child_divisions(world.datasets[result'.args[1]],
                                    result'.args[2]).value]_vars

(***************************************************************************)
(* CRMClientStorage.load_clients, wrapped in @st.cache_data(ttl=3600) with *)
(* _self as its only parameter.                                            *)
(***************************************************************************)
DataDirs == {"dirA", "dirB"}

\* what a clients.json holds
ClientTexts ==
    {"{ invalid json }", "{\"not\": \"an array\"}", "[]", "[{\"system_id\": \"client1\"}]"}

\* os.path.exists(clients_file) and the text of the file
ClientFiles ==
    {[exists |-> FALSE, text |-> ""]} \cup
    {[exists |-> TRUE, text |-> text] : text \in ClientTexts}

\* json.load(f)
json_load(text) ==
    IF text = "[]" THEN [status |-> "ok", type |-> "list", value |-> <<>>]
    ELSE IF text = "[{\"system_id\": \"client1\"}]"
    THEN [status |-> "ok", type |-> "list",
          value |-> <<[system_id |-> "client1"]>>]
    ELSE IF text = "{\"not\": \"an array\"}"
    THEN [status |-> "ok", type |-> "dict", value |-> <<>>]
    ELSE [status |-> "JSONDecodeError", type |-> "", value |-> <<>>]

load_clients(file) ==
    LET clients == json_load(file.text)
    IN  IF ~file.exists THEN <<>>
        ELSE IF clients.status # "ok" THEN <<>>
        ELSE IF clients.type # "list" THEN <<>>
        ELSE clients.value

LoadClients(data_dir) ==
    /\ CachedCall("load_clients", data_dir, <<>>,
                  [status |-> "ok",
                   value |-> load_clients(world.files[data_dir])])
    /\ EngineUnchanged

InitClients ==
    /\ \E files \in [DataDirs -> ClientFiles] :
          world = [datasets |-> <<>>, files |-> files]
    /\ st_cache = EmptyCache
    /\ conns = NoConns
    /\ db = EmptyTables
    /\ disk = EmptyTables
    /\ result = Outcome("init", "ok", {}, <<>>)
    /\ returned = [s \in SystemIds |-> {}]
    /\ aborted = {}
    /\ mappings = {}
    /\ mappings_seq = 0
    /\ store = EmptyStore
    /\ txn = NoTxn
    /\ reader = NoReader

NextClients ==
    \/ \E data_dir \in DataDirs : LoadClients(data_dir)
    \/ CacheExpire

SpecClients == InitClients /\ [][NextClients]_vars

\* C29: after any sequence of load_clients calls on any CRMClientStorage
\* instances, load_clients on an instance returns the JSON array stored in
\* the clients.json of that instance, and an empty list when the file is
\* missing, is not valid JSON or does not hold an array.
C29_OwnClients ==
    [][result'.op = "load_clients"
          => result'.value = load_clients(world.files[result'.args[1]])]_vars

(***************************************************************************)
(* Two callers on one database file.  Every page handler opens a           *)
(* DatabaseStorage of its own (`with DatabaseStorage() as db`), so two     *)
(* sessions work through two sqlite3 connections.  The file is in          *)
(* rollback-journal mode (no PRAGMA journal_mode): a connection reads the  *)
(* committed rows until its first INSERT, which opens its transaction and  *)
(* takes the write lock of the file; the lock is held until commit or      *)
(* rollback.  An INSERT that meets the lock of another connection waits    *)
(* for it (sqlite3.connect's default timeout of 5 seconds) and raises      *)
(* sqlite3.OperationalError when the lock is not released in time.         *)
(* save_division is two statements, the SELECT of                          *)
(* get_division_by_system_id and the INSERT; another connection may act    *)
(* between them.                                                           *)
(***************************************************************************)
\* the tables a statement of the connection reads: its own pending writes
\* inside a transaction, the committed rows otherwise
conn_tables(conn, committed) == IF conn.pending THEN conn.tables ELSE committed

\* another connection holds the write lock of the file
locked(cs, c) == \E other \in Callers \ {c} : cs[other].pending

CallOutcome(status, value, args) ==
    [op |-> "save_division", status |-> status, value |-> value, args |-> args, txn |-> "open"]

\* save_division up to `if existing: return existing["id"]`
SaveDivisionSelect(c, system_id, name) ==
    LET conn == conns[c]
        existing == get_division_by_system_id(conn_tables(conn, disk), system_id)
        args == <<system_id, name>>
    IN  /\ conn.pc = "idle"
        /\ conns' = [conns EXCEPT ![c] =
                IF existing # {}
                THEN [conn EXCEPT !.call = CallOutcome("ok", {d.id : d \in existing}, args)]
                ELSE [conn EXCEPT !.pc = "insert", !.args = args,
                                  !.call = CallOutcome("running", {}, args)]]
        /\ UNCHANGED <<db, disk, result, returned, aborted, mappings, mappings_seq, store, txn, reader, world, st_cache>>

\* the INSERT of save_division, the write lock being free or the
\* connection's own
SaveDivisionInsert(c) ==
    LET conn == conns[c]
        t == conn_tables(conn, disk)
        row == [id |-> NextRowId(t.divisions), system_id |-> conn.args[1],
                name |-> conn.args[2]]
        accepted == SchemaDivisionAccepts(t, row)
    IN  /\ conn.pc = "insert"
        /\ ~ locked(conns, c)
        /\ conns' = [conns EXCEPT ![c] =
                [pc      |-> "idle",
                 args    |-> <<>>,
                 pending |-> TRUE,
                 tables  |-> IF accepted
                             THEN [t EXCEPT !.divisions = @ \cup {row}]
                             ELSE t,
                 call    |-> IF accepted
                             THEN CallOutcome("ok", {row.id}, conn.args)
                             ELSE CallOutcome("IntegrityError", {}, conn.args)]]
        /\ UNCHANGED <<db, disk, result, returned, aborted, mappings, mappings_seq, store, txn, reader, world, st_cache>>

\* the INSERT of save_division gives up waiting for the write lock
SaveDivisionBusy(c) ==
    LET conn == conns[c]
    IN  /\ conn.pc = "insert"
        /\ locked(conns, c)
        /\ conns' = [conns EXCEPT ![c] =
                [conn EXCEPT !.pc = "idle", !.args = <<>>,
                             !.call = CallOutcome("OperationalError", {}, conn.args)]]
        /\ UNCHANGED <<db, disk, result, returned, aborted, mappings, mappings_seq, store, txn, reader, world, st_cache>>

\* __exit__ without an exception: conn.commit()
ConnCommit(c) ==
    LET conn == conns[c]
    IN  /\ conn.pc = "idle"
        /\ conn.call.txn = "open"
        /\ disk' = conn_tables(conn, disk)
        /\ conns' = [conns EXCEPT ![c] =
                [conn EXCEPT !.pending = FALSE, !.tables = EmptyTables,
                             !.call.txn = "committed"]]
        /\ UNCHANGED <<db, result, returned, aborted, mappings, mappings_seq, store, txn, reader, world, st_cache>>

\* __exit__ with an exception: conn.rollback()
ConnRollback(c) ==
    LET conn == conns[c]
    IN  /\ conn.pc = "idle"
        /\ conn.call.txn = "open"
        /\ conns' = [conns EXCEPT ![c] =
                [conn EXCEPT !.pending = FALSE, !.tables = EmptyTables,
                             !.call.txn = "rolled_back"]]
        /\ UNCHANGED <<db, disk, result, returned, aborted, mappings, mappings_seq, store, txn, reader, world, st_cache>>

\* the system ids the two callers cache
CallerSystemIds == {"ovt-a", "ovt-b"}

NextCallers ==
    \/ \E c \in Callers, system_id \in CallerSystemIds, name \in Names :
            SaveDivisionSelect(c, system_id, name)
    \/ \E c \in Callers : SaveDivisionInsert(c)
    \/ \E c \in Callers : SaveDivisionBusy(c)
    \/ \E c \in Callers : ConnCommit(c)
    \/ \E c \in Callers : ConnRollback(c)

SpecCallers == Init /\ [][NextCallers]_vars

\* both callers made their last call with the same system_id, both calls
\* are over and so are their transactions: committed when the call
\* returned, committed or rolled back when it raised
C31_Case ==
    /\ \A c \in Callers :
        /\ conns[c].pc = "idle"
        /\ conns[c].call.op = "save_division"
        /\ conns[c].call.status # "running"
        /\ conns[c].call.txn \in {"committed", "rolled_back"}
        /\ conns[c].call.status = "ok" => conns[c].call.txn = "committed"
    /\ conns["c1"].call.args[1] = conns["c2"].call.args[1]

\* C31: when two callers, each on its own connection, call save_division
\* with the same system_id, both calls return the same division id and
\* exactly one divisions row with that system_id is committed afterwards.
C31_BothGetSameId ==
    C31_Case =>
        /\ \A c \in Callers : conns[c].call.status = "ok"
        /\ conns["c1"].call.value = conns["c2"].call.value
        /\ Cardinality(get_division_by_system_id(disk, conns["c1"].call.args[1])) = 1

(***************************************************************************)
(* C35: save_division on a cached system_id writes nothing.                *)
(* `name` stands for the descriptive columns of a divisions row (name,     *)
(* subtype, country, geometry_json): save_division passes all four to the  *)
(* same INSERT and to no other statement.                                  *)
(***************************************************************************)
\* the step is a save_division call whose system_id was cached before it
C35_Case ==
    /\ result'.op = "save_division"
    /\ get_division_by_system_id(db, result'.args[1]) # {}

\* C35: save_division called with a system_id that is already cached
\* leaves the stored descriptive fields of that row (and every other row of
\* divisions) unchanged, whatever values are passed.
C35_CachedRowUnchanged ==
    [][C35_Case => /\ db'.divisions = db.divisions
                   /\ result'.status = "ok"]_vars

\* a call on a cached system_id has returned although it passed another
\* name than the stored one
C35_Witness ==
    /\ result.op = "save_division"
    /\ result.status = "ok"
    /\ \E d \in db.divisions :
        /\ d.system_id = result.args[1]
        /\ d.name # result.args[2]
        /\ result.value = {d.id}

(***************************************************************************)
(* C32: create_list and update_list together, starting from a store of up  *)
(* to MaxRenameLists lists that create_list made.                          *)
(***************************************************************************)
NextListHash ==
    \/ NextRename
    \/ \E name \in RenameNames, list_type \in ListTypes, notes \in RenameNotes :
          \E item_ids \in ItemIdSeqs(list_type) :
            CreateList(name, list_type, item_ids, notes)

SpecListHash == InitRename /\ [][NextListHash]_vars

\* every lists row carries the hash of its own name and type
C32_HashMatches ==
    \A l \in db.lists : l.hash = _compute_hash(l.name, l.type)

\* the step is an update_list call that passes no name, or the name the
\* list already has
C32_NotesOnly ==
    /\ result'.op = "update_list"
    /\ \/ result'.args[2] = NoName
       \/ \E l \in get_list(db, result'.args[1]) : result'.args[2] = <<l.name>>

\* C32: after any sequence of create_list and update_list calls every
\* lists row satisfies hash = md5(name + '|' + type); a rename updates the
\* hash together with the name, and a call that changes only notes leaves
\* the hash (and the name) of every row unchanged.
C32_HashFollowsName ==
    /\ []C32_HashMatches
    /\ [][C32_NotesOnly =>
            {<<l.id, l.name, l.hash>> : l \in db'.lists}
                = {<<l.id, l.name, l.hash>> : l \in db.lists}]_vars

\* a rename went through: the row carries the new name and its hash while
\* the committed row still has the old name and the old hash
C32_Witness ==
    /\ result.op = "update_list"
    /\ result.status = "ok"
    /\ result.args[2] # NoName
    /\ \E l \in db.lists, old \in disk.lists :
          /\ l.id = result.args[1]
          /\ old.id = l.id
          /\ l.name = result.args[2][1]
          /\ old.name # l.name
          /\ l.hash = _compute_hash(l.name, l.type)
          /\ l.hash # old.hash

(***************************************************************************)
(* C33: Database.save_list on a list_id that exists.  One list id, two     *)
(* names with descriptions, boundary items of two divisions and one item   *)
(* whose division_id is None, which the loop of save_list cannot store.    *)
(***************************************************************************)
\* the list_name and description a caller passes
SaveHeads == {<<"West", "">>, <<"East", "d">>}

\* a boundary dict without an Overture id
UnsavableItems ==
    {[division_id |-> "None", name |-> "n1", subtype |-> "region", country |-> "US"]}

\* the item lists passed to save_list
SaveListItemSeqs == SeqsUpTo(BoundaryItems \cup UnsavableItems, MaxItems)

NextSaveList ==
    \/ \E head \in SaveHeads, list_id \in CallerListIds, items \in SaveListItemSeqs :
           /\ select_list(store, list_id) = {} => store.list_seq < MaxListId
           /\ SaveList(head[1], head[2], items, "boundary", list_id, "t1")
    \/ \E list_type \in BadSavedListTypes, list_id \in CallerListIds :
           SaveList("East", "d", <<>>, list_type, list_id, "t1")
    \/ \E list_id \in CallerListIds : LoadList(list_id)

SpecSaveList == Init /\ [][NextSaveList]_vars

\* the step is a save_list call with a list_id that existed before it
C33_Case ==
    /\ result'.op = "save_list"
    /\ result'.args[4] # NoListId
    /\ select_list(store, result'.args[4]) # {}

\* what load_list(list_id) returns on tables t
C33_Loaded(t, list_id) == {load_list_dict(l, t) : l \in select_list(t, list_id)}

\* the entries load_list returns for the items of a boundary list: the
\* items as passed, each division with the fields of its last occurrence
C33_Items(items) ==
    [k \in 1..Len(items) |->
        items[CHOOSE j \in 1..Len(items) :
                  /\ items[j].division_id = items[k].division_id
                  /\ \A i \in 1..Len(items) :
                        items[i].division_id = items[k].division_id => i <= j]]

C34_Children(parquet_path, p) ==
    {r \in world.datasets[parquet_path].rows :
        r.class = "land" /\ r.parent_division_id = <<p>>}

\* frame f holds exactly the rows R, one entry each, by name ascending
C34_Holds(f, R) ==
    /\ Len(f.rows) = Cardinality(R)
    /\ {[id |-> e.division_id, name |-> e.name, subtype |-> e.subtype,
         country |-> e.country, parent_division_id |-> e.parent_division_id] :
            e \in SeqToSet(f.rows)}
          = {[id |-> r.id, name |-> r.name, subtype |-> r.subtype,
              country |-> r.country, parent_division_id |-> r.parent_division_id] :
                r \in R}
    /\ \A i, j \in 1..Len(f.rows) :
          i < j => NameRank(f.rows[i].name) <= NameRank(f.rows[j].name)

\* C34: get_child_divisions(p) returns exactly the rows of the engine's
\* dataset of class 'land' whose parent_division_id is p (direct children
\* only), sorted by name ascending, and an empty result when p has no
\* children.
C34_ExactChildren ==
    result.op = "get_child_divisions"
        => C34_Holds(result.value, C34_Children(result.args[1], result.args[2]))

(***************************************************************************)
(* C36: the root among its own descendants (SpecDescendants).              *)
(***************************************************************************)
\* the cycles of exactly len edges through root: len different divisions,
\* the first of them root
C36_Cycles(root, len) ==
    {p \in [1..len -> GraphDivisionIds] :
        /\ p[1] = root
        /\ \A i, j \in 1..len : p[i] = p[j] => i = j}

\* root lies on a cycle of at most d edges of the type
C36_OnCycleWithin(t, root, relationship_type, d) ==
    \E len \in 2..Len(GraphSystemIds) :
        /\ len <= d
        /\ \E p \in C36_Cycles(root, len) :
              /\ \A i \in 1..(len - 1) :
                    HasEdge(t, p[i], p[i + 1], relationship_type)
              /\ HasEdge(t, p[len], p[1], relationship_type)

\* C36: a get_organizational_descendants call that returns includes the
\* root's own id in its result exactly when the root lies on a cycle of
\* edges of the given type whose length is within the depth bound; a root on
\* no such cycle is never returned.
C36_RootOnlyOnCycle ==
    (result.op = "get_organizational_descendants" /\ result.status = "ok")
        => (result.args[1] \in SeqToSet(result.value)
               <=> C36_OnCycleWithin(db, result.args[1], result.args[2],
                                     depth_limit(result.args[3])))

\* a call with max_depth 2 returned its root, which lies on a cycle of two
\* edges of the type, next to another division; the root is also on a cycle
\* of three edges, which is beyond the bound
C36_Witness ==
    /\ result.op = "get_organizational_descendants"
    /\ result.status = "ok"
    /\ result.args[3] = <<2>>
    /\ result.args[1] \in SeqToSet(result.value)
    /\ Len(result.value) = 3
    /\ \E p \in C36_Cycles(result.args[1], 3) :
          /\ HasEdge(db, p[1], p[2], result.args[2])
          /\ HasEdge(db, p[2], p[3], result.args[2])
          /\ HasEdge(db, p[3], p[1], result.args[2])

(***************************************************************************)
(* C37: two saved lists over the same divisions.  division_metadata has    *)
(* one row per (division_id, 'boundary') and per (division_id, system_id,  *)
(* 'crm_client'); every list_item of every list points to it.              *)
(***************************************************************************)
SharedListIds == {<<"L1">>, <<"L2">>}

\* the same CRM client under two account names
SharedClientItems ==
    {[system_id |-> "X", account_name |-> n, division_id |-> "ovt-a",
      division_name |-> n, country |-> "US", custom_admin_level |-> "",
      overture_subtype |-> "region"] : n \in Names}

\* the item lists a caller saves: a selection of items in some order, each
\* division once
SharedSelections(items) ==
    {s \in UNION {Arrangements(S) : S \in SUBSET items} :
        \A i, j \in 1..Len(s) : s[i].division_id = s[j].division_id => i = j}

SharedItemSeqs(list_type) ==
    IF list_type = "boundary" THEN SharedSelections(BoundaryItems)
    ELSE SharedSelections(SharedClientItems)

NextShared ==
    \/ \E list_type \in SavedListTypes, list_id \in SharedListIds :
           \E items \in SharedItemSeqs(list_type) :
               /\ select_list(store, list_id) = {} => store.list_seq < MaxListId
               /\ SaveList("West", "", items, list_type, list_id, "t1")
    \/ \E list_id \in SharedListIds : LoadList(list_id)

SpecShared == Init /\ [][NextShared]_vars

\* item and entry name the same metadata row of the type
C37_SameKey(item, entry, list_type) ==
    /\ Get(item, "division_id") = entry.division_id
    /\ list_type = "crm_client" => Get(item, "system_id") = entry.system_id

\* the entry load_list returns for a metadata row that was written from
\* item
C37_Written(item, entry, list_type) ==
    IF list_type = "boundary"
    THEN [entry EXCEPT !.name = Get(item, "name"),
                       !.subtype = Get(item, "subtype"),
                       !.country = Get(item, "country")]
    ELSE [entry EXCEPT !.division_name = Get(item, "division_name"),
                       !.overture_subtype = Get(item, "overture_subtype"),
                       !.country = Get(item, "country"),
                       !.account_name = Get(item, "account_name"),
                       !.custom_admin_level = Get(item, "custom_admin_level")]

\* what load_list returns for an entry of another list after save_list
\* stored items of list_type: the fields of the last item with its key, or
\* the entry as it was
C37_Expected(entry, other_type, items, list_type) ==
    LET same == {k \in 1..Len(items) :
                    other_type = list_type /\ C37_SameKey(items[k], entry, list_type)}
    IN  IF same = {} THEN entry
        ELSE C37_Written(items[Max(same)], entry, list_type)

\* the step is a save_list call that returned
C37_Case ==
    /\ result'.op = "save_list"
    /\ result'.status = "ok"

\* C37: division_metadata rows are shared between lists: after save_list
\* stored an item whose key is referenced by another list, load_list of the
\* other list returns the newly written name, subtype, country and account
\* fields for that item; the other list's item count and order (and its
\* entries for other keys) stay as they were.
C37_SharedMetadata ==
    [][C37_Case =>
          \A other \in {l \in store.list : l.list_id # result'.value} :
              /\ other \in store'.list
              /\ LET before == load_list_dict(other, store).boundaries
                     after == load_list_dict(other, store').boundaries
                 IN  /\ Len(after) = Len(before)
                     /\ \A k \in 1..Len(before) :
                           after[k] = C37_Expected(before[k], other.list_type,
                                                   result'.args[2],
                                                   result'.args[3])]_vars

\* L2 was saved with an item that names ovt-a "n2"; L1 holds ovt-a first and
\* another division second, and shows ovt-a under that name
C37_Witness ==
    /\ result.op = "save_list"
    /\ result.status = "ok"
    /\ result.value = <<"L2">>
    /\ result.args[3] = "boundary"
    /\ Len(result.args[2]) = 1
    /\ \E other \in select_list(store, <<"L1">>) :
          LET shown == load_list_dict(other, store).boundaries
          IN  /\ other.list_type = "boundary"
              /\ Len(shown) = 2
              /\ result.args[2][1].division_id = "ovt-a"
              /\ result.args[2][1].name = "n2"
              /\ shown[1].division_id = "ovt-a"
              /\ shown[1].name = "n2"
              /\ shown[2].division_id # "ovt-a"

(***************************************************************************)
(* ListDatabaseStorage.update_list_metadata (Database.update_list_metadata *)
(* is the same code).  list.list_name is TEXT NOT NULL, list.description   *)
(* is TEXT and may be NULL.                                                *)
(***************************************************************************)
\* description: Optional[str] = None
NoDescription == <<>>

\* the list_name and description arguments: None, or a string, which may be
\* empty
MetadataNames == {NoName} \cup {<<n>> : n \in {"", "East"}}
MetadataDescriptions == {NoDescription} \cup {<<d>> : d \in {"", "d2"}}

\* the row after the UPDATE the call chooses.  `if list_name` and
\* `elif list_name` test the truth value of list_name, so an empty name goes
\* to the last branch like None does; that branch binds description as it
\* was passed, None included
update_list_metadata_sql(row, list_name, description) ==
    LET named == list_name # NoName /\ list_name # <<"">>
    IN  IF named /\ description # NoDescription
        THEN [row EXCEPT !.list_name = list_name[1], !.description = description[1]]
        ELSE IF named
        THEN [row EXCEPT !.list_name = list_name[1]]
        ELSE [row EXCEPT !.description =
                  IF description = NoDescription THEN "None" ELSE description[1]]

\* update_list_metadata(list_id, list_name, description): the value is the
\* bool it returns (cursor.rowcount > 0 after the commit)
UpdateListMetadata(list_id, list_name, description) ==
    LET args == <<list_id, list_name, description>>
        found == select_list(store, list_id)
    IN  /\ IF list_name = NoName /\ description = NoDescription
           THEN /\ store' = store
                /\ result' = Outcome("update_list_metadata", "ok", FALSE, args)
           ELSE /\ store' = [store EXCEPT !.list =
                                (@ \ found) \cup
                                {update_list_metadata_sql(l, list_name, description) :
                                    l \in found}]
                /\ result' = Outcome("update_list_metadata", "ok", found # {}, args)
        /\ UNCHANGED <<conns, world, st_cache, db, disk, returned, aborted, mappings, mappings_seq,
                       txn, reader>>

NextListMetadata ==
    \/ \E head \in SaveHeads, list_id \in CallerListIds :
         \E items \in SeqsUpTo(BoundaryItems, 1) :
           /\ select_list(store, list_id) = {} => store.list_seq < MaxListId
           /\ SaveList(head[1], head[2], items, "boundary", list_id, "t1")
    \/ \E list_id \in CallerListIds, list_name \in MetadataNames,
          description \in MetadataDescriptions :
            UpdateListMetadata(list_id, list_name, description)
    \/ \E list_id \in CallerListIds : LoadList(list_id)

SpecListMetadata == Init /\ [][NextListMetadata]_vars

\* the description of a list row as load_list shows it: NULL as the empty
\* string
C38_Shown(l) == IF l.description = "None" THEN "" ELSE l.description

\* C38: update_list_metadata changes only the fields passed as non-None: a
\* call without description leaves the description of the list unchanged,
\* a call without list_name leaves its list_name unchanged, and a call
\* with neither writes nothing and returns False.  The description is
\* compared as load_list shows it (NULL as the empty string).
C38_OnlyPassedFields ==
    [][result'.op = "update_list_metadata" =>
          /\ {l.id : l \in store'.list} = {l.id : l \in store.list}
          /\ \A old \in store.list, new \in store'.list :
                old.id = new.id =>
                    /\ result'.args[2] = NoName => new.list_name = old.list_name
                    /\ result'.args[3] = NoDescription
                          => C38_Shown(new) = C38_Shown(old)
          /\ (result'.args[2] = NoName /\ result'.args[3] = NoDescription)
                => store' = store /\ result'.value = FALSE]_vars
====
